---- MODULE Spec2Model ----
(***************************************************************************)
(* Model of the LogFire telemetry client of shared_contracts:              *)
(*   monitoring/implementations/logfire_client.py  (LogFireClient)         *)
(*   monitoring/implementations/logfire_config.py  (LogFireConfig)         *)
(*   monitoring/utils/tracing_utils.py             (create_trace_context)  *)
(*                                                                         *)
(* Caller threads run public calls of the client.  A public call is a      *)
(* sequence of steps (todo) executed in order; log, record_metric and      *)
(* flush are further split at the points where the code can block or be    *)
(* interleaved: the acquisition of flush_lock and the awaited HTTP posts.  *)
(***************************************************************************)
EXTENDS Integers, Sequences, FiniteSets, TLC

(***************************************************************************)
(* Bounds of the model.                                                    *)
(***************************************************************************)
MaxCalls == 4           \* public calls made in one behaviour
MaxFilterCalls == 2     \* log calls made in one behaviour of SpecFilter
MaxSanCalls == 1        \* data-carrying calls in one behaviour of SpecSanitize
MaxBatch == 3           \* largest configured batch_size explored
RateScale == 4          \* sample_rate and draws are multiples of 1/RateScale
MaxSpans == 3           \* spans created in one behaviour of SpecSpan
MaxSpanCalls == 5       \* calls made in one behaviour of SpecSpan
MaxWrapCalls == 4       \* wrapper entries and exits in one behaviour of SpecWrap
MaxShutdownCalls == 4   \* calls made in one behaviour of SpecShutdown
MaxDataSpans == 2       \* spans created in one behaviour of SpecSpanData
MaxDataCalls == 4       \* calls made in one behaviour of SpecSpanData
MaxMetricCalls == 3     \* calls made in one behaviour of SpecMetrics
MaxConfigCalls == 3     \* calls made in one behaviour of SpecConfig
MaxConcCalls == 3       \* calls made in one behaviour of SpecConcurrent
MaxTimerCalls == 3      \* calls made by the application in SpecTimer
MaxTime == 4            \* largest clock value kept apart in SpecTimer
MaxTaskCalls == 4       \* scope entries and exits in one behaviour of SpecTasks
MaxMonitorCalls == 4    \* get_monitor calls in one behaviour of SpecMonitor

(***************************************************************************)
(* Program constants.                                                      *)
(***************************************************************************)
DefaultBatchSize == 100

Threads == {"t1", "t2"}
NoThread == "none"

\* What asyncio.get_event_loop() gives the calling thread (flush, line 1176):
\*   loop_running : a loop that is running (caller is inside a coroutine)
\*   loop_idle    : a loop that is not running (plain synchronous caller)
\*   no_loop      : RuntimeError, the thread has no event loop (worker thread)
Contexts == {"loop_running", "loop_idle", "no_loop"}

LogLevels == {"debug", "info", "warning", "error", "critical"}

\* Outcomes of one http_client.post: a 2xx, a 3xx or a >=400 response, or an
\* exception (connection failure, timeout).
Responses == {"2xx", "3xx", "4xx5xx", "exception"}

VARIABLES
    config,         \* self.config: batch_size, min_log_level, sample_rate
    ctx,            \* per thread: its event-loop context
    log_buffer,     \* self.log_buffer
    metric_buffer,  \* self.metric_buffer
    flush_lock,     \* holder of self.flush_lock, or NoThread
    pc,             \* per thread: position in the running call
    todo,           \* per thread: the steps of the running call still to do
    loc,            \* per thread: locals of flush/_do_flush
    sent,           \* history of the calls on http_client: post, aclose
    nCalls,         \* number of public calls started
    call,           \* per thread: record of the running / last public call
    lastLog,        \* decision of the last executed log step
    metrics,        \* self.metrics: the registered metric descriptors
    spans,          \* every TraceContext object created, by span_id
    active_traces,  \* self.active_traces: the span_ids registered
    current_trace,  \* per OS thread: _trace_context_local.current_trace
    scopes,         \* per thread: the open create_trace_context scopes
    now,            \* datetime.utcnow() and time.time(), as a counter
    client,         \* self.service_name, self.environment, self.last_flush
    monitor         \* logger_utils._monitor and the clients constructed

spanVars == <<spans, active_traces, current_trace, scopes, now>>
vars == <<config, ctx, log_buffer, metric_buffer, flush_lock, pc, todo,
          loc, sent, nCalls, call, lastLog, metrics, spans, active_traces,
          current_trace, scopes, now, client, monitor>>

\* A call context is a thread of its own, or a task of the running event
\* loop; the tasks of the loop all run on the loop's thread, and
\* threading.local (tracing_utils.py line 32) is kept per thread.
LoopThread == "t1"
ThreadOf(t) == IF ctx[t] = "loop_running" THEN LoopThread ELSE t

(***************************************************************************)
(* Pure helpers.                                                           *)
(***************************************************************************)
\* level_order of log(), lines 247-253
level_order(l) ==
    CASE l = "debug" -> 0
      [] l = "info" -> 1
      [] l = "warning" -> 2
      [] l = "error" -> 3
      [] l = "critical" -> 4

\* log(), lines 240-244: the sampling gate.  TRUE when the event is dropped.
SampledOut_noCriticalExemption(level, draw) ==
    config.sample_rate < RateScale /\ draw > config.sample_rate

SampledOut(level, draw) ==
    config.sample_rate < RateScale /\ level # "critical"
        /\ draw > config.sample_rate

\* log(), lines 254-255: the minimum-level gate.  TRUE when dropped.
BelowMinLevel(level) ==
    level_order(level) < level_order(config.min_log_level)

\* Response handling of _do_flush: lines 1129-1136 (and 1152-1159).
\* TRUE when the post leaves `success` untouched.
PostKeepsSuccess(r) == r \in {"2xx", "3xx"}

\* What is observed of a public call: for a flush its return value, the
\* posts made and the buffer lengths at entry and return; for a span call the
\* span, the current span and the span's fields before the call (pre,
\* before), whether the span was registered (known), and whether the call
\* warned or raised; for the exit of a wrapper the exception the wrapped work
\* raised (exc) and the one that left the wrapper (out), "" for none; for
\* end_span its data argument, for record_api_call its request_data, for
\* configure its arguments; for get_monitor the client returned (span).
NoCall == [op |-> "none", done |-> TRUE, reached |-> FALSE, flushes |-> 0,
           doflush |-> 0, sends |-> <<>>, ret |-> "none",
           entryLog |-> 0, entryMet |-> 0, retLog |-> 0, retMet |-> 0,
           id |-> 0, span |-> 0, pre |-> 0, known |-> TRUE, arg |-> "none",
           before |-> <<>>, warned |-> FALSE, raised |-> FALSE,
           exc |-> "", out |-> "", data |-> <<>>]

NewCall(op, id) == [NoCall EXCEPT !.op = op, !.done = FALSE, !.id = id]

NoLoc == [success |-> TRUE, to_send |-> <<>>]

\* _monitor is None, and no LogFireClient constructed yet.
NoMonitor == [instance |-> 0, created |-> 0]

\* The absent optional argument (data=None, trace_id=None, no span).
NoData == <<>>
NoTrace == 0
NoSpan == 0

MetricNames == {"m1", "m2", "api_call_duration_ms"}

(***************************************************************************)
(* Event data: Dict[str, Any].  A map is a sequence of <<key, value>>      *)
(* pairs with distinct keys; a key is the sequence of its characters; a    *)
(* value is a string, a nested map, or a list holding one map.             *)
(***************************************************************************)
Str(x) == [kind |-> "str", s |-> x, m |-> <<>>, n |-> 0]
Num(x) == [kind |-> "num", s |-> "", m |-> <<>>, n |-> x]
Map(x) == [kind |-> "map", s |-> "", m |-> x, n |-> 0]
ListOf(x) == [kind |-> "list", s |-> "", m |-> x, n |-> 0]

K_user == <<"u", "s", "e", "r">>
K_Password == <<"P", "a", "s", "s", "w", "o", "r", "d">>
K_token == <<"t", "o", "k", "e", "n">>
K_monkey == <<"m", "o", "n", "k", "e", "y">>
K_nested == <<"n", "e", "s", "t", "e", "d">>
K_items == <<"i", "t", "e", "m", "s">>
K_api_name == <<"a", "p", "i", "_", "n", "a", "m", "e">>
K_status_code == <<"s", "t", "a", "t", "u", "s", "_", "c", "o", "d", "e">>
K_duration_ms == <<"d", "u", "r", "a", "t", "i", "o", "n", "_", "m", "s">>
K_success == <<"s", "u", "c", "c", "e", "s", "s">>
K_request == <<"r", "e", "q", "u", "e", "s", "t">>
K_response == <<"r", "e", "s", "p", "o", "n", "s", "e">>

\* str.lower() on the characters the sample keys use
Lower(ch) ==
    CASE ch = "P" -> "p"
      [] ch = "T" -> "t"
      [] ch = "K" -> "k"
      [] OTHER -> ch

key_lower(key) == [i \in 1..Len(key) |-> Lower(key[i])]

\* sensitive_keys of _sanitize_data, lines 636-647
sensitive_keys ==
    { <<"p", "a", "s", "s", "w", "o", "r", "d">>,
      <<"t", "o", "k", "e", "n">>,
      <<"s", "e", "c", "r", "e", "t">>,
      <<"k", "e", "y">>,
      <<"a", "p", "i", "k", "e", "y">>,
      <<"a", "p", "i", "_", "k", "e", "y">>,
      <<"a", "u", "t", "h", "o", "r", "i", "z", "a", "t", "i", "o", "n">>,
      <<"a", "u", "t", "h">>,
      <<"c", "r", "e", "d", "e", "n", "t", "i", "a", "l">>,
      <<"c", "r", "e", "d", "e", "n", "t", "i", "a", "l", "s">> }

\* Python's `sub in s` on strings
Contains(sub, str) ==
    \E i \in 0..(Len(str) - Len(sub)) : SubSeq(str, i + 1, i + Len(sub)) = sub

\* line 652: any(sensitive in key_lower for sensitive in sensitive_keys)
IsSensitive(key) ==
    \E sensitive \in sensitive_keys : Contains(sensitive, key_lower(key))

REDACTED == Str("***REDACTED***")

\* _sanitize_data without the recursion into nested maps (lines 654-655)
sanitize_data_shallow(data) ==
    [i \in 1..Len(data) |->
        IF IsSensitive(data[i][1]) THEN <<data[i][1], REDACTED>> ELSE data[i]]

\* _sanitize_data, lines 626-658
RECURSIVE sanitize_data(_)
sanitize_data(data) ==
    [i \in 1..Len(data) |->
        LET key == data[i][1]
            value == data[i][2]
        IN IF IsSensitive(key) THEN <<key, REDACTED>>
           ELSE IF value.kind = "map" THEN <<key, Map(sanitize_data(value.m))>>
           ELSE <<key, value>>]

\* dict.update / item assignment: set key to value, keeping the position of
\* a key already present
SetKey(data, key, value) ==
    IF \E i \in 1..Len(data) : data[i][1] = key
    THEN [i \in 1..Len(data) |->
             IF data[i][1] = key THEN <<key, value>> ELSE data[i]]
    ELSE Append(data, <<key, value>>)

\* A step of a public call.  msg tells the three kinds of message apart:
\* "plain", "start_span" (line 448) and "end_span" (line 508).
LogOp(level, draw, data, trace, msg, span) ==
    [op |-> "log", level |-> level, draw |-> draw, data |-> data,
     trace |-> trace, msg |-> msg, span |-> span, name |-> "-"]
MetricOp(name) ==
    [op |-> "metric", level |-> "info", draw |-> 0, data |-> NoData,
     trace |-> NoTrace, msg |-> "plain", span |-> NoSpan, name |-> name]
RegisterOp(name) ==
    [op |-> "register", level |-> "info", draw |-> 0, data |-> NoData,
     trace |-> NoTrace, msg |-> "plain", span |-> NoSpan, name |-> name]
\* The call of register_metric; msg is the metric_type, or "auto" for the
\* call record_metric makes (gauge, auto-generated description).
RegisterWriteOp(name, metric_type) ==
    [op |-> "register_write", level |-> "info", draw |-> 0, data |-> NoData,
     trace |-> NoTrace, msg |-> metric_type, span |-> NoSpan, name |-> name]
\* Steps of the span calls: `del self.active_traces[...]` (line 517), the
\* adoption of the span by create_trace_context (lines 259-267) and its
\* `finally` block (lines 286-291).
SpanOp(op, span) ==
    [op |-> op, level |-> "info", draw |-> 0, data |-> NoData,
     trace |-> NoTrace, msg |-> "plain", span |-> span, name |-> "-"]
FlushOp ==
    [op |-> "flush", level |-> "info", draw |-> 0, data |-> NoData,
     trace |-> NoTrace, msg |-> "plain", span |-> NoSpan, name |-> "-"]

\* Position of a thread after a step that leaves `rest` to do.
After(rest) == IF rest = <<>> THEN "idle" ELSE "ready"

\* The record of the running call once the step leaving `rest` is done.
Settle(c, rest, lb, mb) ==
    IF rest = <<>>
    THEN [c EXCEPT !.done = TRUE, !.retLog = Len(lb), !.retMet = Len(mb)]
    ELSE c

(***************************************************************************)
(* Public calls: entry points.                                             *)
(***************************************************************************)
BeginWith(t, c, steps) ==
    /\ pc[t] = "idle"
    /\ nCalls' = nCalls + 1
    /\ call' = [call EXCEPT ![t] =
                   Settle([c EXCEPT !.id = nCalls + 1], steps, log_buffer,
                          metric_buffer)]
    /\ todo' = [todo EXCEPT ![t] = steps]
    /\ pc' = [pc EXCEPT ![t] = After(steps)]

Begin(t, op, steps) == BeginWith(t, NewCall(op, 0), steps)

\* log(message, level, ..., data, ..., trace_id), lines 217-288
CallLog(t, level, draw, data) ==
    /\ Begin(t, "log", <<LogOp(level, draw, data, NoTrace, "plain", NoSpan)>>)
    /\ UNCHANGED <<spanVars, config, client, monitor, ctx, log_buffer, metric_buffer, flush_lock, loc,
                   sent, lastLog, metrics>>

\* record_metric(metric_name, value, tags), lines 737-778
\* The Metric that register_metric constructs, lines 727-732; auto tells the
\* description "Auto-registered metric: ..." of lines 753-758 from one given
\* by the application.
Descriptor(metric_type) ==
    IF metric_type = "auto" THEN [metric_type |-> "gauge", auto |-> TRUE]
                            ELSE [metric_type |-> metric_type, auto |-> FALSE]

\* self.metrics[name] = metric, line 734
register_metric(reg, name, metric) ==
    [n \in DOMAIN reg \cup {name} |-> IF n = name THEN metric ELSE reg[n]]

\* record_metric is its registration step followed by its buffering step
record_metric(name) == <<RegisterOp(name), MetricOp(name)>>

CallRecordMetric(t, name) ==
    /\ Begin(t, "record_metric", record_metric(name))
    /\ UNCHANGED <<spanVars, config, client, monitor, ctx, log_buffer, metric_buffer, flush_lock, loc,
                   sent, lastLog, metrics>>

\* log_data of record_api_call, lines 581-601
K_error == <<"e", "r", "r", "o", "r">>

\* log_data with the response stored as received (line 598 skipped)
ApiLogData_rawResponse(status_code, request_data, response_data, error) ==
    LET success == 200 <= status_code /\ status_code < 300
        d0 == << <<K_api_name, Str("api")>>,
                 <<K_status_code, Str(IF success THEN "2xx" ELSE "other")>>,
                 <<K_duration_ms, Str("ms")>>,
                 <<K_success, Str(IF success THEN "True" ELSE "False")>> >>
        d1 == IF request_data # NoData
              THEN SetKey(d0, K_request, Map(sanitize_data(request_data)))
              ELSE d0
        d2 == IF response_data # NoData
                   /\ (success \/ config.min_log_level = "debug")
              THEN SetKey(d1, K_response, Map(response_data))
              ELSE d1
    IN IF error # "" THEN SetKey(d2, K_error, Str(error)) ELSE d2

ApiLogData(status_code, request_data, response_data, error) ==
    LET success == 200 <= status_code /\ status_code < 300
        d0 == << <<K_api_name, Str("api")>>,
                 <<K_status_code, Str(IF success THEN "2xx" ELSE "other")>>,
                 <<K_duration_ms, Str("ms")>>,
                 <<K_success, Str(IF success THEN "True" ELSE "False")>> >>
        d1 == IF request_data # NoData
              THEN SetKey(d0, K_request, Map(sanitize_data(request_data)))
              ELSE d0
        d2 == IF response_data # NoData
                   /\ (success \/ config.min_log_level = "debug")
              THEN SetKey(d1, K_response, Map(sanitize_data(response_data)))
              ELSE d1
    IN IF error # "" THEN SetKey(d2, K_error, Str(error)) ELSE d2

\* register_metric(name, description, unit, metric_type) called by the
\* application, lines 708-735
CallRegisterMetric(t, name, metric_type) ==
    /\ Begin(t, "register_metric", <<RegisterWriteOp(name, metric_type)>>)
    /\ UNCHANGED <<spanVars, config, client, monitor, ctx, log_buffer, metric_buffer, flush_lock, loc,
                   sent, lastLog, metrics>>

\* record_api_call, lines 559-624
CallRecordApiCall(t, status_code, draw, request_data, response_data, error) ==
    /\ BeginWith(t, [NewCall("record_api_call", 0) EXCEPT
                         !.data = request_data],
             <<LogOp(IF 200 <= status_code /\ status_code < 300
                        THEN "info" ELSE "error",
                     draw,
                     ApiLogData(status_code, request_data, response_data,
                                error),
                     NoTrace, "api_call", NoSpan)>>
             \o record_metric("api_call_duration_ms"))
    /\ UNCHANGED <<spanVars, config, client, monitor, ctx, log_buffer, metric_buffer, flush_lock, loc,
                   sent, lastLog, metrics>>

\* critical(message, ...), lines 386-411: log at CRITICAL, then flush()
CallCritical(t, data) ==
    /\ Begin(t, "critical",
             <<LogOp("critical", 0, data, NoTrace, "plain", NoSpan), FlushOp>>)
    /\ UNCHANGED <<spanVars, config, client, monitor, ctx, log_buffer, metric_buffer, flush_lock, loc,
                   sent, lastLog, metrics>>

\* flush() called by the application, lines 1163-1189
CallFlush(t) ==
    /\ Begin(t, "flush", <<FlushOp>>)
    /\ UNCHANGED <<spanVars, config, client, monitor, ctx, log_buffer, metric_buffer, flush_lock, loc,
                   sent, lastLog, metrics>>

(***************************************************************************)
(* log(): lines 239-288.                                                   *)
(***************************************************************************)
LogStep(t) ==
    /\ pc[t] = "ready"
    /\ Head(todo[t]).op = "log"
    /\ LET m == Head(todo[t])
           rest == Tail(todo[t])
           entry == [id |-> call[t].id, level |-> m.level, data |-> m.data,
                     trace |-> m.trace, msg |-> m.msg, span |-> m.span,
                     service |-> client.service_name,
                     environment |-> client.environment]
       IN IF SampledOut(m.level, m.draw) \/ BelowMinLevel(m.level)
          THEN \* lines 244 and 255: return without buffering
               /\ todo' = [todo EXCEPT ![t] = rest]
               /\ pc' = [pc EXCEPT ![t] = After(rest)]
               /\ call' = [call EXCEPT ![t] =
                              Settle(@, rest, log_buffer, metric_buffer)]
               /\ UNCHANGED <<log_buffer, flush_lock>>
          ELSE \* lines 283-288: with self.flush_lock: append, maybe flush
               /\ flush_lock = NoThread
               /\ log_buffer' = Append(log_buffer, entry)
               /\ todo' = [todo EXCEPT ![t] = rest]
               /\ IF Len(log_buffer') >= config.batch_size
                  THEN \* _schedule_flush() -> flush(), lock still held
                       /\ flush_lock' = t
                       /\ pc' = [pc EXCEPT ![t] = "flush"]
                       /\ call' = [call EXCEPT ![t].reached =
                                     @ \/ Len(log_buffer') = config.batch_size]
                  ELSE /\ flush_lock' = NoThread
                       /\ pc' = [pc EXCEPT ![t] = After(rest)]
                       /\ call' = [call EXCEPT ![t] =
                                     Settle(@, rest, log_buffer', metric_buffer)]
    /\ lastLog' = [level |-> Head(todo[t]).level, draw |-> Head(todo[t]).draw,
                   appended |-> log_buffer' # log_buffer]
    /\ UNCHANGED <<spanVars, config, client, monitor, ctx, metric_buffer, loc, sent, nCalls, metrics>>

(***************************************************************************)
(* record_metric(): lines 751-778.                                         *)
(***************************************************************************)
\* The test of line 752: if metric_name not in self.metrics.  The test and
\* the registration it guards are separate steps, and no lock is held.
RegisterStep(t) ==
    /\ pc[t] = "ready"
    /\ Head(todo[t]).op = "register"
    /\ todo' = [todo EXCEPT ![t] =
                   IF Head(@).name \in DOMAIN metrics
                   THEN Tail(@)
                   ELSE <<RegisterWriteOp(Head(@).name, "auto")>> \o Tail(@)]
    /\ UNCHANGED <<spanVars, config, client, monitor, ctx, log_buffer, metric_buffer, flush_lock, pc,
                   loc, sent, nCalls, call, lastLog, metrics>>

\* register_metric, lines 727-735
RegisterWriteStep(t) ==
    /\ pc[t] = "ready"
    /\ Head(todo[t]).op = "register_write"
    /\ LET m == Head(todo[t])
           rest == Tail(todo[t])
       IN /\ metrics' = register_metric(metrics, m.name, Descriptor(m.msg))
          /\ todo' = [todo EXCEPT ![t] = rest]
          /\ pc' = [pc EXCEPT ![t] = After(rest)]
          /\ call' = [call EXCEPT ![t] =
                        Settle(@, rest, log_buffer, metric_buffer)]
    /\ UNCHANGED <<spanVars, config, client, monitor, ctx, log_buffer, metric_buffer, flush_lock,
                   loc, sent, nCalls, lastLog>>

\* The buffering part, lines 760-778.
MetricStep(t) ==
    /\ pc[t] = "ready"
    /\ Head(todo[t]).op = "metric"
    /\ flush_lock = NoThread
    /\ LET m == Head(todo[t])
           rest == Tail(todo[t])
           entry == [id |-> call[t].id, name |-> m.name,
                     service |-> client.service_name,
                     environment |-> client.environment]
       IN /\ metric_buffer' = Append(metric_buffer, entry)
          /\ todo' = [todo EXCEPT ![t] = rest]
          /\ IF Len(metric_buffer') >= config.batch_size
             THEN /\ flush_lock' = t
                  /\ pc' = [pc EXCEPT ![t] = "flush"]
                  /\ call' = [call EXCEPT ![t].reached =
                                @ \/ Len(metric_buffer') = config.batch_size]
             ELSE /\ flush_lock' = NoThread
                  /\ pc' = [pc EXCEPT ![t] = After(rest)]
                  /\ call' = [call EXCEPT ![t] =
                                Settle(@, rest, log_buffer, metric_buffer')]
    /\ UNCHANGED <<spanVars, config, client, monitor, ctx, log_buffer, loc, sent, nCalls, lastLog,
                   metrics>>

(***************************************************************************)
(* flush(): lines 1163-1189, and _do_flush(): lines 1106-1161.             *)
(***************************************************************************)
AtFlush(t) ==
    \/ pc[t] = "flush"
    \/ pc[t] = "ready" /\ Head(todo[t]).op = "flush"

\* flush() returns r to its caller.  A flush called by _schedule_flush from
\* inside `with self.flush_lock` (lines 283-288, 773-778) returns into that
\* block, which then releases the lock.
ReturnFromFlush(t, r, c, rest) ==
    /\ flush_lock' = IF flush_lock = t THEN NoThread ELSE flush_lock
    /\ todo' = [todo EXCEPT ![t] = rest]
    /\ pc' = [pc EXCEPT ![t] = After(rest)]
    /\ call' = [call EXCEPT ![t] =
                   Settle([c EXCEPT !.ret = r], rest, log_buffer,
                          metric_buffer)]

\* The finally block of flush, lines 1188-1189
FlushFinally == [client EXCEPT !.last_flush = now]

\* Lines 1170-1187 up to the call of _do_flush.
FlushEntry(t) ==
    /\ AtFlush(t)
    /\ LET rest == IF pc[t] = "ready" THEN Tail(todo[t]) ELSE todo[t]
           c == [call[t] EXCEPT !.flushes = @ + 1,
                                !.entryLog = Len(log_buffer),
                                !.entryMet = Len(metric_buffer)]
       IN IF log_buffer = <<>> /\ metric_buffer = <<>>
          THEN \* line 1172, before the try block
               /\ ReturnFromFlush(t, "true", c, rest)
               /\ UNCHANGED <<loc, client>>
          ELSE CASE ctx[t] = "loop_running" ->
                      \* line 1181: nothing is scheduled, True is returned
                      /\ ReturnFromFlush(t, "true", c, rest)
                      /\ client' = FlushFinally
                      /\ UNCHANGED loc
                 [] ctx[t] = "no_loop" ->
                      \* get_event_loop() raises; lines 1185-1187
                      /\ ReturnFromFlush(t, "false", c, rest)
                      /\ client' = FlushFinally
                      /\ UNCHANGED loc
                 [] ctx[t] = "loop_idle" ->
                      \* line 1184: run_until_complete(self._do_flush())
                      /\ loc' = [loc EXCEPT ![t] = NoLoc]
                      /\ call' = [call EXCEPT ![t] =
                                     [c EXCEPT !.doflush = @ + 1]]
                      /\ todo' = [todo EXCEPT ![t] = rest]
                      /\ pc' = [pc EXCEPT ![t] = "df_logs"]
                      /\ UNCHANGED <<flush_lock, client>>
    /\ UNCHANGED <<spanVars, config, monitor, ctx, log_buffer, metric_buffer, sent, nCalls,
                   lastLog, metrics>>

\* Line 1116: if self.log_buffer
DoFlushCheckLogs(t) ==
    /\ pc[t] = "df_logs"
    /\ pc' = [pc EXCEPT ![t] =
                 IF log_buffer # <<>> THEN "swap_logs" ELSE "df_metrics"]
    /\ UNCHANGED <<spanVars, config, client, monitor, ctx, log_buffer, metric_buffer, flush_lock, todo,
                   loc, sent, nCalls, call, lastLog, metrics>>

\* The buffer left as it is after the clone
ClearedBuffer_kept(buffer) == buffer

\* list.clear(), lines 1121 and 1144
ClearedBuffer(buffer) == <<>>

\* A clone that misses the newest entry
Cloned_withoutLast(buffer) ==
    IF buffer = <<>> THEN buffer ELSE SubSeq(buffer, 1, Len(buffer) - 1)

\* list(self.log_buffer), lines 1120 and 1143
Cloned(buffer) == buffer

\* Lines 1119-1121: with self.flush_lock: clone and clear
SwapLogs(t) ==
    /\ pc[t] = "swap_logs"
    /\ flush_lock = NoThread
    /\ loc' = [loc EXCEPT ![t].to_send = Cloned(log_buffer)]
    /\ log_buffer' = ClearedBuffer(log_buffer)
    /\ pc' = [pc EXCEPT ![t] = "post_logs"]
    /\ UNCHANGED <<spanVars, config, client, monitor, ctx, metric_buffer, flush_lock, todo, sent,
                   nCalls, call, lastLog, metrics>>

\* http_client.aclose() has run: at once in shutdown (line 1208) or as the
\* task created at line 1206.
Closed ==
    \E k \in 1..Len(sent) : sent[k].outcome \in {"closed", "task_closed"}

\* `except Exception` with no handler at all
Catches_nothing(cls) == FALSE

\* `except Exception` (lines 1134 and 1157 of _do_flush, line 1185 of flush):
\* the classes of exception the handler takes.  The errors of the transport
\* (httpx.HTTPError: timeouts, connection failures) are of class Exception.
Catches(cls) == cls = "Exception"

\* One awaited post and the handling of its outcome.  An exception of the
\* post that neither handler took would leave the public call, releasing
\* flush_lock on the way if the call holds it.  A closed client refuses the
\* request with an exception.
Post(t, endpoint, r, nextpc) ==
    /\ Closed => r = "exception"
    /\ sent' = Append(sent, [endpoint |-> endpoint, batch |-> loc[t].to_send,
                             outcome |-> r])
    /\ loc' = [loc EXCEPT ![t] =
                   [success |-> @.success /\ PostKeepsSuccess(r),
                    to_send |-> <<>>]]
    /\ IF r = "exception" /\ ~Catches("Exception")
       THEN /\ call' = [call EXCEPT ![t] =
                           Settle([@ EXCEPT !.sends =
                                      Append(@, [endpoint |-> endpoint,
                                                 n |-> Len(loc[t].to_send),
                                                 outcome |-> r]),
                                            !.raised = TRUE],
                                  <<>>, log_buffer, metric_buffer)]
            /\ todo' = [todo EXCEPT ![t] = <<>>]
            /\ pc' = [pc EXCEPT ![t] = "idle"]
            /\ flush_lock' = IF flush_lock = t THEN NoThread ELSE flush_lock
       ELSE /\ call' = [call EXCEPT ![t].sends =
                           Append(@, [endpoint |-> endpoint,
                                      n |-> Len(loc[t].to_send),
                                      outcome |-> r])]
            /\ pc' = [pc EXCEPT ![t] = nextpc]
            /\ UNCHANGED <<todo, flush_lock>>

\* _do_flush giving up after a failed post to /logs
AfterPostLogs_stopOnFailure(r) ==
    IF PostKeepsSuccess(r) THEN "df_metrics" ELSE "flush_ret"

\* Where _do_flush goes on after the post to /logs: both branches of the
\* response test and the handler (lines 1129-1136) fall through to line 1139.
AfterPostLogs(r) == "df_metrics"

\* Lines 1124-1136: post to /logs
PostLogs(t, r) ==
    /\ pc[t] = "post_logs"
    /\ Post(t, "/logs", r, AfterPostLogs(r))
    /\ UNCHANGED <<spanVars, config, client, monitor, ctx, log_buffer, metric_buffer, nCalls,
                   lastLog, metrics>>

\* Line 1139: if self.metric_buffer
DoFlushCheckMetrics(t) ==
    /\ pc[t] = "df_metrics"
    /\ pc' = [pc EXCEPT ![t] =
                 IF metric_buffer # <<>> THEN "swap_metrics" ELSE "flush_ret"]
    /\ UNCHANGED <<spanVars, config, client, monitor, ctx, log_buffer, metric_buffer, flush_lock, todo,
                   loc, sent, nCalls, call, lastLog, metrics>>

\* Lines 1142-1144
SwapMetrics(t) ==
    /\ pc[t] = "swap_metrics"
    /\ flush_lock = NoThread
    /\ loc' = [loc EXCEPT ![t].to_send = Cloned(metric_buffer)]
    /\ metric_buffer' = ClearedBuffer(metric_buffer)
    /\ pc' = [pc EXCEPT ![t] = "post_metrics"]
    /\ UNCHANGED <<spanVars, config, client, monitor, ctx, log_buffer, flush_lock, todo, sent,
                   nCalls, call, lastLog, metrics>>

\* Lines 1147-1159: post to /metrics
PostMetrics(t, r) ==
    /\ pc[t] = "post_metrics"
    /\ Post(t, "/metrics", r, "flush_ret")
    /\ UNCHANGED <<spanVars, config, client, monitor, ctx, log_buffer, metric_buffer, nCalls,
                   lastLog, metrics>>

\* Line 1161 and line 1184: _do_flush returns success, flush returns it
DoFlushReturn(t) ==
    /\ pc[t] = "flush_ret"
    /\ ReturnFromFlush(t, IF loc[t].success THEN "true" ELSE "false",
                       call[t], todo[t])
    /\ client' = FlushFinally
    /\ UNCHANGED <<spanVars, config, monitor, ctx, log_buffer, metric_buffer, loc, sent, nCalls,
                   lastLog, metrics>>

(***************************************************************************)
(* shutdown(): lines 1191-1215.                                            *)
(***************************************************************************)
CloseOp ==
    [op |-> "close", level |-> "info", draw |-> 0, data |-> NoData,
     trace |-> NoTrace, msg |-> "plain", span |-> NoSpan, name |-> "-"]

\* The requests made so far.
Posts == SelectSeq(sent, LAMBDA x : x.endpoint \in {"/logs", "/metrics"})

\* The connection: open, closing (an aclose task is created and has not
\* run) or closed.
Connection ==
    IF Closed THEN "closed"
    ELSE IF \E k \in 1..Len(sent) : sent[k].outcome = "scheduled"
         THEN "closing"
         ELSE "open"

\* What a caller can observe of the client between two calls.
ClientState ==
    [log_buffer |-> log_buffer, metric_buffer |-> metric_buffer,
     posts |-> Posts, connection |-> Connection]

\* shutdown() called by the application or by __del__ (lines 1217-1222):
\* flush(), then the close of http_client.  The record of the call keeps the
\* state of the client at the call and whether the call before it was a
\* shutdown too.
CallShutdown(t) ==
    /\ BeginWith(t, [NewCall("shutdown", 0) EXCEPT
                        !.before = <<ClientState>>,
                        !.arg = IF call[t].op = "shutdown" THEN "repeat"
                                                           ELSE "first"],
                 <<FlushOp, CloseOp>>)
    /\ UNCHANGED <<spanVars, config, client, monitor, ctx, log_buffer, metric_buffer,
                   flush_lock, loc, sent, lastLog, metrics>>

\* Lines 1203-1215, after flush() has returned.
CloseStep(t) ==
    /\ pc[t] = "ready"
    /\ Head(todo[t]).op = "close"
    /\ LET rest == Tail(todo[t])
           aclose(o) == [endpoint |-> "aclose", batch |-> <<>>, outcome |-> o]
           r == IF ctx[t] = "no_loop" THEN "false" ELSE "true"
       IN /\ sent' = CASE ctx[t] = "loop_running" ->
                            \* line 1206: asyncio.create_task(aclose())
                            Append(sent, aclose("scheduled"))
                       [] ctx[t] = "loop_idle" ->
                            \* line 1208: run_until_complete(aclose())
                            Append(sent, aclose("closed"))
                       [] ctx[t] = "no_loop" ->
                            \* line 1204 raises; lines 1213-1215
                            sent
          /\ todo' = [todo EXCEPT ![t] = rest]
          /\ pc' = [pc EXCEPT ![t] = After(rest)]
          /\ call' = [call EXCEPT ![t] =
                         Settle([@ EXCEPT !.ret = r], rest, log_buffer,
                                metric_buffer)]
    /\ UNCHANGED <<spanVars, config, client, monitor, ctx, log_buffer, metric_buffer,
                   flush_lock, loc, nCalls, lastLog, metrics>>

\* The event loop runs an aclose task created at line 1206: it can do so
\* once the coroutine that called shutdown has returned from the call.
RunCloseTask ==
    /\ \E t \in Threads : ctx[t] = "loop_running"
    /\ \A t \in Threads : pc[t] = "idle"
    /\ Cardinality({k \in 1..Len(sent) : sent[k].outcome = "scheduled"})
         > Cardinality({k \in 1..Len(sent) : sent[k].outcome = "task_closed"})
    /\ sent' = Append(sent, [endpoint |-> "aclose", batch |-> <<>>,
                             outcome |-> "task_closed"])
    /\ UNCHANGED <<spanVars, config, client, monitor, ctx, log_buffer, metric_buffer,
                   flush_lock, pc, todo, loc, nCalls, call, lastLog, metrics>>

(***************************************************************************)
(* Spans: TraceContext (monitor_models.py), start_span / end_span          *)
(* (logfire_client.py) and create_trace_context (tracing_utils.py).        *)
(***************************************************************************)
K_span_id == <<"s", "p", "a", "n", "_", "i", "d">>
K_trace_id == <<"t", "r", "a", "c", "e", "_", "i", "d">>
K_status == <<"s", "t", "a", "t", "u", "s">>
K_error_message ==
    <<"e", "r", "r", "o", "r", "_", "m", "e", "s", "s", "a", "g", "e">>
K_error_type == <<"e", "r", "r", "o", "r", "_", "t", "y", "p", "e">>

\* dict.update(other)
RECURSIVE UpdateData(_, _)
UpdateData(data, other) ==
    IF other = <<>> THEN data
    ELSE UpdateData(SetKey(data, other[1][1], other[1][2]), Tail(other))

\* TraceContext(service_name=..., operation_name=...): fresh span_id and
\* trace_id (uuid4), no parent, status unset, no end_time (0), no
\* duration_ms (-1).  cur records the current span of the creating thread,
\* started whether start_span created the object, given the data argument
\* start_span was called with, owner the call context that started it.
NewSpan(id, time, cur, started) ==
    [span_id |-> id, trace_id |-> id, parent_span_id |-> NoSpan,
     start_time |-> time, end_time |-> 0, duration_ms |-> -1,
     attributes |-> NoData, status |-> "unset", error_message |-> "",
     cur |-> cur, started |-> started, given |-> NoData,
     owner |-> NoThread]

\* log_data of start_span, lines 443-445
StartLogData(sp, data) ==
    UpdateData(<< <<K_span_id, Num(sp.span_id)>>,
                  <<K_trace_id, Num(sp.trace_id)>> >>, data)

\* What the caller of start_span does with the returned span: nothing
\* (lines 456-457), or the parent fix-up of create_trace_context (lines
\* 259-267) or of trace_method (lines 156-164), or the entry of the `try`
\* block of with_monitoring / track_performance (logger_utils.py)
AfterStart(kind, id) ==
    CASE kind = "context" -> <<SpanOp("scope_enter", id)>>
      [] kind = "method" -> <<SpanOp("method_enter", id)>>
      [] kind = "monitoring" -> <<SpanOp("monitoring_enter", id)>>
      [] kind = "performance" -> <<SpanOp("performance_enter", id)>>
      [] OTHER -> <<>>

\* start_span, lines 434-455: the span is created and registered, then the
\* "Start span" entry is logged; `kind` says who called.
StartSpanWith(t, c, data, draw, kind) ==
    LET id == Len(spans) + 1
        sp == [NewSpan(id, now, current_trace[ThreadOf(t)], TRUE) EXCEPT
                  !.given = data, !.owner = t]
    IN /\ spans' = Append(spans, sp)
       /\ active_traces' = active_traces \cup {id}
       /\ now' = now + 1
       /\ BeginWith(t, [c EXCEPT !.span = id, !.pre = current_trace[ThreadOf(t)]],
                    <<LogOp("debug", draw, StartLogData(sp, data),
                            sp.trace_id, "start_span", id)>>
                    \o AfterStart(kind, id))

\* monitor.start_span(...) called by the application, lines 413-457
CallStartSpan(t, data, draw) ==
    /\ StartSpanWith(t, NewCall("start_span", 0), data, draw, "direct")
    /\ UNCHANGED <<config, client, monitor, ctx, log_buffer, metric_buffer, flush_lock, loc,
                   sent, lastLog, metrics, current_trace, scopes>>

\* TraceContext(...) built by the application itself: a span the client
\* never started
CallConstructSpan(t) ==
    /\ spans' = Append(spans, NewSpan(Len(spans) + 1, now, current_trace[ThreadOf(t)],
                                      FALSE))
    /\ now' = now + 1
    /\ BeginWith(t, [NewCall("construct", 0) EXCEPT !.span = Len(spans) + 1],
                 <<>>)
    /\ UNCHANGED <<config, client, monitor, ctx, log_buffer, metric_buffer, flush_lock, loc,
                   sent, lastLog, metrics, active_traces, current_trace,
                   scopes>>

\* end_span, line 475 negated, with the registry check left out
EndSpanKnown_noCheck(s) == TRUE

\* end_span, line 475 negated: the span is in the registry
EndSpanKnown(s) == s \in active_traces

\* end_span, lines 479-491: the fields of the span after the update
EndedSpan(sp, status, error_message, data, time) ==
    [sp EXCEPT !.end_time = time,
               !.status = status,
               !.error_message = error_message,
               !.duration_ms = time - sp.start_time,
               !.attributes = UpdateData(@, data)]

\* end_span, lines 494-503
EndLogData(sp, status, error_message, data) ==
    LET d0 == << <<K_span_id, Num(sp.span_id)>>,
                 <<K_trace_id, Num(sp.trace_id)>>,
                 <<K_duration_ms, Num(sp.duration_ms)>>,
                 <<K_status, Str(status)>> >>
        d1 == IF error_message # ""
              THEN SetKey(d0, K_error_message, Str(error_message)) ELSE d0
    IN UpdateData(d1, data)

\* end_span, lines 459-517: a span that is not registered gives a warning
\* and nothing else; a registered one is updated at once, then the "End
\* span" entry is logged and the span is unregistered.  `after` is what the
\* caller does once end_span has returned.
EndSpanWith(t, c, s, status, error_message, data, draw, after) ==
    LET known == EndSpanKnown(s)
        c1 == [c EXCEPT !.span = s, !.known = known, !.arg = status,
                        !.before = <<spans[s]>>, !.warned = ~known,
                        !.data = data]
        sp == EndedSpan(spans[s], status, error_message, data, now)
    IN IF ~known
       THEN /\ BeginWith(t, c1, after)
            /\ UNCHANGED <<spans, now>>
       ELSE /\ spans' = [spans EXCEPT ![s] = sp]
            /\ now' = now + 1
            /\ BeginWith(t, c1,
                         <<LogOp(IF status = "error" THEN "error" ELSE "debug",
                                 draw,
                                 EndLogData(sp, status, error_message, data),
                                 sp.trace_id, "end_span", s),
                           SpanOp("del", s)>> \o after)

\* monitor.end_span(span, data, status, error_message) called by the
\* application
CallEndSpan(t, s, status, error_message, data, draw) ==
    /\ EndSpanWith(t, NewCall("end_span", 0), s, status, error_message, data,
                   draw, <<>>)
    /\ UNCHANGED <<config, client, monitor, ctx, log_buffer, metric_buffer, flush_lock, loc,
                   sent, lastLog, metrics, active_traces, current_trace,
                   scopes>>

\* Line 517: del self.active_traces[span.span_id].  A KeyError leaves the
\* call through the pending `finally` blocks only.
DelStep(t) ==
    /\ pc[t] = "ready"
    /\ Head(todo[t]).op = "del"
    /\ LET s == Head(todo[t]).span
           rest == IF s \in active_traces THEN Tail(todo[t])
                   ELSE SelectSeq(Tail(todo[t]), LAMBDA m : m.op = "restore")
       IN /\ active_traces' = active_traces \ {s}
          /\ todo' = [todo EXCEPT ![t] = rest]
          /\ pc' = [pc EXCEPT ![t] = After(rest)]
          /\ call' = [call EXCEPT ![t] =
                         Settle([@ EXCEPT !.raised = @ \/ s \notin active_traces],
                                rest, log_buffer, metric_buffer)]
    /\ UNCHANGED <<config, client, monitor, ctx, log_buffer, metric_buffer, flush_lock, loc,
                   sent, nCalls, lastLog, metrics, spans, current_trace,
                   scopes, now>>

\* A traced scope is entered: `with create_trace_context(...)` (kind
\* "context": start_span, then lines 259-267) or a call of a method
\* decorated with trace_method (kind "method": lines 149-164 and 83-98).
CallEnterScope(t, kind, data, draw) ==
    /\ StartSpanWith(t, NewCall("enter_scope", 0), data, draw, kind)
    /\ UNCHANGED <<config, client, monitor, ctx, log_buffer, metric_buffer, flush_lock, loc,
                   sent, lastLog, metrics, current_trace, scopes>>

\* Lines 259-267 (trace_method: 156-164, 90-98): the span gets the current
\* span as parent and becomes the current span; parent_trace is kept for
\* the exit.
ScopeEnterStep(t) ==
    /\ pc[t] = "ready"
    /\ Head(todo[t]).op \in {"scope_enter", "method_enter"}
    /\ LET s == Head(todo[t]).span
           parent_trace == current_trace[ThreadOf(t)]
           rest == Tail(todo[t])
       IN /\ spans' = IF parent_trace # NoSpan
                      THEN [spans EXCEPT
                              ![s].parent_span_id = spans[parent_trace].span_id,
                              ![s].trace_id = spans[parent_trace].trace_id]
                      ELSE spans
          /\ current_trace' = [current_trace EXCEPT ![ThreadOf(t)] = s]
          /\ scopes' = [scopes EXCEPT ![t] =
                           Append(@, [span |-> s, parent_trace |-> parent_trace,
                                      pre |-> call[t].pre,
                                      kind |-> IF Head(todo[t]).op = "scope_enter"
                                               THEN "context" ELSE "method"])]
          /\ todo' = [todo EXCEPT ![t] = rest]
          /\ pc' = [pc EXCEPT ![t] = After(rest)]
          /\ call' = [call EXCEPT ![t] =
                         Settle(@, rest, log_buffer, metric_buffer)]
    /\ UNCHANGED <<config, client, monitor, ctx, log_buffer, metric_buffer, flush_lock, loc,
                   sent, nCalls, lastLog, metrics, active_traces, now>>

\* The innermost open scope of a thread.
TopScope(t) == scopes[t][Len(scopes[t])]

\* What the wrapped work raised: nothing, an Exception (ValueError("boom"))
\* or a BaseException that is not an Exception (SystemExit, KeyboardInterrupt,
\* asyncio.CancelledError)
WorkException(how) ==
    CASE how = "ok" -> ""
      [] how = "exception" -> "boom"
      [] how = "base_exception" -> "exit"

\* The innermost scope is left: normally (lines 273-274; trace_method:
\* 171, 105), by an Exception (lines 275-285; 174-184, 108-118) or by a
\* BaseException that `except Exception` does not catch; then the `finally`
\* block runs.
CallExitScope(t, how, draw) ==
    /\ scopes[t] # <<>>
    /\ TopScope(t).kind \in {"context", "method"}
    /\ LET f == TopScope(t)
           c == [NewCall("exit_scope", 0) EXCEPT !.pre = f.pre,
                                                 !.exc = WorkException(how)]
           attrs == IF f.kind = "context" THEN spans[f.span].attributes
                    ELSE NoData
       IN CASE how = "ok" ->
                 EndSpanWith(t, c, f.span, "ok", "", attrs, draw,
                             <<SpanOp("restore", f.span)>>)
            [] how = "exception" ->
                 EndSpanWith(t, c, f.span, "error", "boom",
                             SetKey(attrs, K_error_type, Str("ValueError")),
                             draw, <<SpanOp("restore", f.span)>>)
            [] how = "base_exception" ->
                 /\ BeginWith(t, [c EXCEPT !.span = f.span, !.arg = how],
                              <<SpanOp("restore", f.span)>>)
                 /\ UNCHANGED <<spans, now>>
    /\ UNCHANGED <<config, client, monitor, ctx, log_buffer, metric_buffer, flush_lock, loc,
                   sent, lastLog, metrics, active_traces, current_trace,
                   scopes>>

\* Lines 287-291 with the parent forgotten: the current span is always unset
CurrentAfterExit_alwaysUnset(parent_trace) == NoSpan

\* Lines 287-291 (trace_method: 186-190, 120-124): the current span after
\* the `finally` block
CurrentAfterExit(parent_trace) ==
    IF parent_trace # NoSpan THEN parent_trace ELSE NoSpan

\* Lines 286-291 (trace_method: 185-190, 119-124): the `finally` block,
\* after which the exception of the work, re-raised by line 285 (184, 118)
\* or never caught, leaves the wrapper
RestoreStep(t) ==
    /\ pc[t] = "ready"
    /\ Head(todo[t]).op = "restore"
    /\ LET rest == Tail(todo[t])
       IN /\ current_trace' = [current_trace EXCEPT ![ThreadOf(t)] =
                                  CurrentAfterExit(TopScope(t).parent_trace)]
          /\ scopes' = [scopes EXCEPT ![t] = SubSeq(@, 1, Len(@) - 1)]
          /\ todo' = [todo EXCEPT ![t] = rest]
          /\ pc' = [pc EXCEPT ![t] = After(rest)]
          /\ call' = [call EXCEPT ![t] =
                         Settle([@ EXCEPT !.out = call[t].exc], rest,
                                log_buffer,
                                metric_buffer)]
    /\ UNCHANGED <<config, client, monitor, ctx, log_buffer, metric_buffer, flush_lock, loc,
                   sent, nCalls, lastLog, metrics, spans, active_traces, now>>

(***************************************************************************)
(* with_monitoring and track_performance (logger_utils.py): a span around  *)
(* the wrapped work, a performance record, no current-span bookkeeping.    *)
(* The synchronous and the asynchronous wrapper of with_monitoring (lines  *)
(* 215-267 and 157-209) have the same statements around the call.          *)
(***************************************************************************)
K_operation == <<"o", "p", "e", "r", "a", "t", "i", "o", "n">>

\* The `try` block is entered with the span in the local `span`
\* (with_monitoring lines 222-230, track_performance lines 297-316).
WrapperEnterStep(t) ==
    /\ pc[t] = "ready"
    /\ Head(todo[t]).op \in {"monitoring_enter", "performance_enter"}
    /\ LET rest == Tail(todo[t])
       IN /\ scopes' = [scopes EXCEPT ![t] =
                           Append(@, [span |-> Head(todo[t]).span,
                                      parent_trace |-> NoSpan,
                                      pre |-> call[t].pre,
                                      kind |-> IF Head(todo[t]).op
                                                     = "monitoring_enter"
                                               THEN "monitoring"
                                               ELSE "performance"])]
          /\ todo' = [todo EXCEPT ![t] = rest]
          /\ pc' = [pc EXCEPT ![t] = After(rest)]
          /\ call' = [call EXCEPT ![t] =
                         Settle(@, rest, log_buffer, metric_buffer)]
    /\ UNCHANGED <<config, client, monitor, ctx, log_buffer, metric_buffer, flush_lock, loc,
                   sent, nCalls, lastLog, metrics, spans, active_traces,
                   current_trace, now>>

\* log_data of record_performance, logfire_client.py lines 678-684
PerfLogData(success, details) ==
    UpdateData(<< <<K_operation, Str("op")>>,
                  <<K_duration_ms, Str("ms")>>,
                  <<K_success, Str(IF success THEN "True" ELSE "False")>> >>,
               details)

\* record_performance, logfire_client.py lines 660-706: a log entry at INFO,
\* then record_metric("operation_duration_ms")
record_performance(success, details, draw) ==
    <<LogOp("info", draw, PerfLogData(success, details), NoTrace,
            "performance", NoSpan)>>
    \o record_metric("operation_duration_ms")

\* monitor.end_span(span, status=..., error_message=..., data=...) as a
\* statement of a wrapper
EndSpanOp(span, status, error_message, data, draw) ==
    [op |-> "end_span", level |-> "info", draw |-> draw, data |-> data,
     trace |-> NoTrace, msg |-> error_message, span |-> span, name |-> status]

\* end_span, lines 459-517, reached as a statement of a wrapper
EndSpanStep(t) ==
    /\ pc[t] = "ready"
    /\ Head(todo[t]).op = "end_span"
    /\ LET m == Head(todo[t])
           rest == Tail(todo[t])
           s == m.span
           known == EndSpanKnown(s)
           sp == EndedSpan(spans[s], m.name, m.msg, m.data, now)
           c1 == [call[t] EXCEPT !.span = s, !.known = known, !.arg = m.name,
                                 !.before = <<spans[s]>>, !.warned = ~known]
       IN IF ~known
          THEN /\ todo' = [todo EXCEPT ![t] = rest]
               /\ pc' = [pc EXCEPT ![t] = After(rest)]
               /\ call' = [call EXCEPT ![t] =
                              Settle(c1, rest, log_buffer, metric_buffer)]
               /\ UNCHANGED <<spans, now>>
          ELSE /\ spans' = [spans EXCEPT ![s] = sp]
               /\ now' = now + 1
               /\ todo' = [todo EXCEPT ![t] =
                              <<LogOp(IF m.name = "error" THEN "error"
                                                          ELSE "debug",
                                      m.draw,
                                      EndLogData(sp, m.name, m.msg, m.data),
                                      sp.trace_id, "end_span", s),
                                SpanOp("del", s)>> \o rest]
               /\ call' = [call EXCEPT ![t] = c1]
               /\ UNCHANGED pc
    /\ UNCHANGED <<config, client, monitor, ctx, log_buffer, metric_buffer, flush_lock, loc,
                   sent, nCalls, lastLog, metrics, active_traces,
                   current_trace, scopes>>

\* The wrapped work of the innermost with_monitoring / track_performance
\* wrapper is over: normally (with_monitoring lines 231-245,
\* track_performance lines 317-331), by an Exception (lines 247-267,
\* 332-356) or by a BaseException that `except Exception` does not catch.
CallExitWrapper(t, how, draw) ==
    /\ scopes[t] # <<>>
    /\ TopScope(t).kind \in {"monitoring", "performance"}
    /\ LET f == TopScope(t)
           c == [NewCall("exit_scope", 0) EXCEPT !.pre = f.pre,
                                                 !.span = f.span,
                                                 !.arg = how,
                                                 !.exc = WorkException(how)]
           attrs == IF f.kind = "performance" THEN spans[f.span].attributes
                    ELSE NoData
           failure == SetKey(SetKey(attrs, K_error, Str("boom")),
                             K_error_type, Str("ValueError"))
       IN CASE how = "ok" ->
                 BeginWith(t, c,
                           record_performance(TRUE, attrs, draw)
                           \o <<EndSpanOp(f.span, "ok", "", attrs, draw),
                                SpanOp("leave", f.span)>>)
            [] how = "exception" ->
                 BeginWith(t, c,
                           record_performance(FALSE, failure, draw)
                           \o <<EndSpanOp(f.span, "error", "boom",
                                          SetKey(attrs, K_error_type,
                                                 Str("ValueError")), draw),
                                SpanOp("leave", f.span)>>)
            [] how = "base_exception" ->
                 BeginWith(t, c, <<SpanOp("leave", f.span)>>)
    /\ UNCHANGED <<spanVars, config, client, monitor, ctx, log_buffer, metric_buffer,
                   flush_lock, loc, sent, lastLog, metrics>>

\* The wrapper is left: it returns, or the exception of the work leaves it,
\* re-raised by `raise` (with_monitoring lines 209 and 267,
\* track_performance line 356) or never caught.
LeaveStep(t) ==
    /\ pc[t] = "ready"
    /\ Head(todo[t]).op = "leave"
    /\ LET rest == Tail(todo[t])
       IN /\ scopes' = [scopes EXCEPT ![t] = SubSeq(@, 1, Len(@) - 1)]
          /\ todo' = [todo EXCEPT ![t] = rest]
          /\ pc' = [pc EXCEPT ![t] = After(rest)]
          /\ call' = [call EXCEPT ![t] =
                         Settle([@ EXCEPT !.out = call[t].exc], rest,
                                log_buffer,
                                metric_buffer)]
    /\ UNCHANGED <<config, client, monitor, ctx, log_buffer, metric_buffer, flush_lock, loc,
                   sent, nCalls, lastLog, metrics, spans, active_traces,
                   current_trace, now>>

\* No span exists, no scope is open.
\* __init__, lines 54-55 and 79; no global monitor yet (logger_utils 24).
InitClient ==
    /\ client = [service_name |-> "svc", environment |-> "development",
                 last_flush |-> 1]
    /\ monitor = NoMonitor

InitSpans ==
    /\ spans = <<>>
    /\ active_traces = {}
    /\ current_trace = [t \in Threads |-> NoSpan]
    /\ scopes = [t \in Threads |-> <<>>]
    /\ now = 1

(***************************************************************************)
(* The flush pipeline: callers logging, recording metrics and flushing.    *)
(***************************************************************************)
Init ==
    /\ config \in [batch_size : 1..MaxBatch, min_log_level : {"info"},
                    sample_rate : {RateScale}]
    /\ \E c \in Contexts : ctx = [t \in Threads |-> c]
    /\ log_buffer = <<>>
    /\ metric_buffer = <<>>
    /\ flush_lock = NoThread
    /\ pc = [t \in Threads |-> "idle"]
    /\ todo = [t \in Threads |-> <<>>]
    /\ loc = [t \in Threads |-> NoLoc]
    /\ sent = <<>>
    /\ nCalls = 0
    /\ call = [t \in Threads |-> NoCall]
    /\ lastLog = [level |-> "none", draw |-> 0, appended |-> FALSE]
    /\ metrics = <<>>
    /\ InitSpans
    /\ InitClient

Steps(t) ==
    \/ LogStep(t)
    \/ RegisterStep(t)
    \/ RegisterWriteStep(t)
    \/ MetricStep(t)
    \/ FlushEntry(t)
    \/ DoFlushCheckLogs(t)
    \/ SwapLogs(t)
    \/ \E r \in Responses : PostLogs(t, r)
    \/ DoFlushCheckMetrics(t)
    \/ SwapMetrics(t)
    \/ \E r \in Responses : PostMetrics(t, r)
    \/ DoFlushReturn(t)

\* One caller thread; its calls run one after the other.
Caller == "t1"

Next ==
    \E t \in {Caller} :
        \/ nCalls < MaxCalls /\ CallLog(t, "info", 0, NoData)
        \/ nCalls < MaxCalls /\ CallRecordMetric(t, "m1")
        \/ nCalls < MaxCalls /\ CallCritical(t, NoData)
        \/ nCalls < MaxCalls /\ CallFlush(t)
        \/ Steps(t)

Spec == Init /\ [][Next]_vars

(***************************************************************************)
(* The sampler/filter: log calls of every level and draw under every       *)
(* minimum level and sample rate.  batch_size is the default, so no        *)
(* size-triggered flush interferes.                                        *)
(***************************************************************************)
InitFilter ==
    /\ config \in [batch_size : {DefaultBatchSize}, min_log_level : LogLevels,
                    sample_rate : 0..RateScale]
    /\ ctx = [t \in Threads |-> "loop_idle"]
    /\ log_buffer = <<>>
    /\ metric_buffer = <<>>
    /\ flush_lock = NoThread
    /\ pc = [t \in Threads |-> "idle"]
    /\ todo = [t \in Threads |-> <<>>]
    /\ loc = [t \in Threads |-> NoLoc]
    /\ sent = <<>>
    /\ nCalls = 0
    /\ call = [t \in Threads |-> NoCall]
    /\ lastLog = [level |-> "none", draw |-> 0, appended |-> FALSE]
    /\ metrics = <<>>
    /\ InitSpans
    /\ InitClient

NextFilter ==
    \/ /\ nCalls < MaxFilterCalls
       /\ \E level \in LogLevels, draw \in 0..(RateScale - 1) :
              CallLog(Caller, level, draw, NoData)
    \/ LogStep(Caller)

SpecFilter == InitFilter /\ [][NextFilter]_vars

(***************************************************************************)
(* Sanitization: log and record_api_call with sample payloads, followed    *)
(* by flushes that transmit what was buffered.                             *)
(***************************************************************************)
SampleData ==
    { NoData,
      << <<K_user, Str("alice")>> >>,
      << <<K_Password, Str("hunter2")>>, <<K_user, Str("alice")>> >>,
      << <<K_nested, Map(<< <<K_token, Str("abc")>>,
                            <<K_monkey, Str("george")>> >>)>> >>,
      << <<K_items, ListOf(<< <<K_token, Str("abc")>> >>)>> >>,
      << <<K_nested,
           Map(<< <<K_user, Str("alice")>>,
                  <<K_nested, Map(<< <<K_Password, Str("hunter2")>>,
                                     <<K_monkey, Str("george")>>,
                                     <<K_user, Str("bob")>> >>)>> >>)>> >> }

InitSanitize ==
    /\ config \in [batch_size : {DefaultBatchSize},
                    min_log_level : {"debug", "info"},
                    sample_rate : {RateScale}]
    /\ ctx = [t \in Threads |-> "loop_idle"]
    /\ log_buffer = <<>>
    /\ metric_buffer = <<>>
    /\ flush_lock = NoThread
    /\ pc = [t \in Threads |-> "idle"]
    /\ todo = [t \in Threads |-> <<>>]
    /\ loc = [t \in Threads |-> NoLoc]
    /\ sent = <<>>
    /\ nCalls = 0
    /\ call = [t \in Threads |-> NoCall]
    /\ lastLog = [level |-> "none", draw |-> 0, appended |-> FALSE]
    /\ metrics = <<>>
    /\ InitSpans
    /\ InitClient

NextSanitize ==
    \/ /\ nCalls < MaxSanCalls
       /\ \E d \in SampleData : CallLog(Caller, "info", 0, d)
    \/ /\ nCalls < MaxSanCalls
       /\ \E status_code \in {200, 500}, req \in SampleData,
             resp \in {NoData, << <<K_Password, Str("hunter2")>> >>} :
              CallRecordApiCall(Caller, status_code, 0, req, resp,
                                IF status_code = 200 THEN "" ELSE "boom")
    \/ nCalls < MaxCalls /\ CallFlush(Caller)
    \/ Steps(Caller)

SpecSanitize == InitSanitize /\ [][NextSanitize]_vars

(***************************************************************************)
(* Tracing: spans started and ended directly and through nested            *)
(* create_trace_context scopes, by one thread.                             *)
(***************************************************************************)
InitSpan ==
    /\ config \in [batch_size : {DefaultBatchSize},
                    min_log_level : {"debug", "info"},
                    sample_rate : {RateScale}]
    /\ ctx = [t \in Threads |-> "loop_idle"]
    /\ log_buffer = <<>>
    /\ metric_buffer = <<>>
    /\ flush_lock = NoThread
    /\ pc = [t \in Threads |-> "idle"]
    /\ todo = [t \in Threads |-> <<>>]
    /\ loc = [t \in Threads |-> NoLoc]
    /\ sent = <<>>
    /\ nCalls = 0
    /\ call = [t \in Threads |-> NoCall]
    /\ lastLog = [level |-> "none", draw |-> 0, appended |-> FALSE]
    /\ metrics = <<>>
    /\ InitSpans
    /\ InitClient

SpanStatuses == {"ok", "error", "unset"}

NextSpan ==
    \/ /\ nCalls < MaxSpanCalls /\ Len(spans) < MaxSpans
       /\ CallStartSpan(Caller, NoData, 0)
    \/ /\ nCalls < MaxSpanCalls /\ Len(spans) < MaxSpans
       /\ CallConstructSpan(Caller)
    \/ /\ nCalls < MaxSpanCalls /\ Len(spans) < MaxSpans
       /\ \E kind \in {"context", "method"} :
              CallEnterScope(Caller, kind, NoData, 0)
    \/ /\ nCalls < MaxSpanCalls
       /\ \E s \in 1..Len(spans), status \in SpanStatuses :
              CallEndSpan(Caller, s, status,
                          IF status = "error" THEN "boom" ELSE "", NoData, 0)
    \/ /\ nCalls < MaxSpanCalls
       /\ \E how \in {"ok", "exception", "base_exception"} :
              CallExitScope(Caller, how, 0)
    \/ LogStep(Caller)
    \/ DelStep(Caller)
    \/ ScopeEnterStep(Caller)
    \/ RestoreStep(Caller)

SpecSpan == InitSpan /\ [][NextSpan]_vars

(***************************************************************************)
(* Properties.                                                             *)
(***************************************************************************)
Finished(t, ops) == call[t].op \in ops /\ call[t].done

SendsTo(c, endpoint) ==
    {i \in 1..Len(c.sends) : c.sends[i].endpoint = endpoint}

\* The transport contract of the specification: only a 2xx response is a
\* successful send.
SendSucceeded(snd) == snd.outcome = "2xx"

\* C1: when a log (or record_metric) call brings its buffer up to batch_size,
\* exactly one flush is triggered, it hands all batch_size entries to the
\* transport in one call, and the buffer is empty when the call returns.
C1_SizeTriggeredFlush ==
    \A t \in Threads :
        (Finished(t, {"log", "record_metric"}) /\ call[t].reached) =>
            LET ep == IF call[t].op = "log" THEN "/logs" ELSE "/metrics"
                left == IF call[t].op = "log" THEN call[t].retLog
                                              ELSE call[t].retMet
            IN /\ call[t].flushes = 1
               /\ Cardinality(SendsTo(call[t], ep)) = 1
               /\ \A i \in SendsTo(call[t], ep) :
                      call[t].sends[i].n = config.batch_size
               /\ left = 0

\* C2: a log or record_metric call whose append reaches batch_size always
\* returns: the caller never waits for flush_lock while holding it itself.
C2_NeverBlockedOnOwnLock ==
    \A t \in Threads :
        ~(pc[t] \in {"swap_logs", "swap_metrics"} /\ flush_lock = t)

\* C3: flush() sends only non-empty batches, returns true iff every send it
\* attempted succeeded, and with both buffers empty makes no send and
\* returns true.
C3_FlushResult ==
    \A t \in Threads :
        Finished(t, {"flush"}) =>
            /\ \A i \in 1..Len(call[t].sends) : call[t].sends[i].n > 0
            /\ (call[t].entryLog = 0 /\ call[t].entryMet = 0) =>
                   (call[t].sends = <<>> /\ call[t].ret = "true")
            /\ (call[t].ret = "true") <=>
                   \A i \in 1..Len(call[t].sends) :
                       SendSucceeded(call[t].sends[i])

\* C4: after flush() is called with non-empty buffers (and a transport that
\* accepts every batch), _do_flush has run exactly once, flush returned true
\* and both buffers are empty, whatever the caller's event-loop context.
C4_FlushDrains ==
    \A t \in Threads :
        ( /\ Finished(t, {"flush"})
          /\ call[t].entryLog + call[t].entryMet > 0
          /\ \A i \in 1..Len(call[t].sends) : SendSucceeded(call[t].sends[i]) )
        => /\ call[t].doflush = 1
           /\ call[t].ret = "true"
           /\ call[t].retLog = 0
           /\ call[t].retMet = 0

\* C5: a CRITICAL-level log call has flushed synchronously when it returns:
\* flush ran, the log batch went to the transport and the entry is no longer
\* waiting in the buffer.
C5_CriticalFlushes ==
    \A t \in Threads :
        Finished(t, {"critical"}) =>
            /\ call[t].flushes >= 1
            /\ SendsTo(call[t], "/logs") # {}
            /\ call[t].retLog = 0

\* Every log entry that is buffered or was handed to the transport.
LogEntries ==
    {log_buffer[i] : i \in 1..Len(log_buffer)}
        \cup UNION {{sent[k].batch[i] : i \in 1..Len(sent[k].batch)} :
                      k \in {j \in 1..Len(sent) : sent[j].endpoint = "/logs"}}

\* A sensitive-named key with an unredacted value, anywhere in the data.
RECURSIVE Unredacted(_)
Unredacted(data) ==
    \E i \in 1..Len(data) :
        \/ IsSensitive(data[i][1]) /\ data[i][2] # REDACTED
        \/ data[i][2].kind \in {"map", "list"} /\ Unredacted(data[i][2].m)

\* The same, looking only into maps that are values of maps.
RECURSIVE UnredactedInMaps(_)
UnredactedInMaps(data) ==
    \E i \in 1..Len(data) :
        \/ IsSensitive(data[i][1]) /\ data[i][2] # REDACTED
        \/ data[i][2].kind = "map" /\ UnredactedInMaps(data[i][2].m)

\* C6 (as claimed): no buffered or transmitted log entry holds a sensitive
\* key with an unredacted value anywhere in its data.
C6_NoSensitiveInBuffer ==
    \A e \in LogEntries : ~Unredacted(e.data)

\* C6 (amended): no entry buffered by record_api_call, nor a transmitted copy
\* of it, holds a sensitive key with an unredacted value in its data map or
\* in a map nested in it through map values.
C6_ApiCallSanitized ==
    \A e \in LogEntries : e.msg = "api_call" => ~UnredactedInMaps(e.data)

\* A transmitted api-call entry whose request carried a password, redacted.
C6_Witness ==
    \E k \in 1..Len(sent) :
        /\ sent[k].endpoint = "/logs"
        /\ \E i \in 1..Len(sent[k].batch) :
              LET e == sent[k].batch[i]
              IN /\ e.msg = "api_call"
                 /\ \E j \in 1..Len(e.data) :
                       /\ e.data[j][1] = K_request
                       /\ e.data[j][2].m[1] = <<K_Password, REDACTED>>

\* The call that created span i has returned it.
Returned(i) ==
    ~\E t \in Threads :
        /\ call[t].op \in {"start_span", "enter_scope"}
        /\ call[t].span = i
        /\ ~call[t].done

\* C8: a span started while a current span exists in the calling context has
\* that span's trace_id and its span_id as parent_span_id; started without a
\* current span it begins a new trace and has no parent.
C8_StartSpanInheritsCurrent ==
    \A i \in 1..Len(spans) :
        (spans[i].started /\ Returned(i)) =>
            IF spans[i].cur # NoSpan
            THEN /\ spans[i].trace_id = spans[spans[i].cur].trace_id
                 /\ spans[i].parent_span_id = spans[spans[i].cur].span_id
            ELSE /\ spans[i].trace_id = i
                 /\ spans[i].parent_span_id = NoSpan

\* C9: when a create_trace_context scope has been left, normally or through
\* an exception, the current span is the one that was current before the
\* scope was entered.
C9_ScopeExitRestoresCurrent ==
    \A t \in Threads :
        Finished(t, {"exit_scope"}) => current_trace[t] = call[t].pre

\* A nested scope was left through an exception and its parent is current.
C9_Witness ==
    /\ Finished(Caller, {"exit_scope"})
    /\ call[Caller].arg = "error"
    /\ call[Caller].pre # NoSpan
    /\ current_trace[Caller] = call[Caller].pre
    /\ Len(scopes[Caller]) >= 1

\* C10: end_span on a span that is not in the active registry returns at
\* once without raising, warns, appends no log entry, and no step changes
\* status, end_time or duration_ms of a span that is not registered.
C10_EndUnknownSpanIsNoop ==
    [][ /\ \A i \in 1..Len(spans) :
              i \notin active_traces =>
                  /\ spans'[i].status = spans[i].status
                  /\ spans'[i].end_time = spans[i].end_time
                  /\ spans'[i].duration_ms = spans[i].duration_ms
        /\ \A t \in Threads :
              ( /\ call'[t] # call[t]
                /\ call'[t].op = "end_span"
                /\ ~call'[t].known )
              => /\ call'[t].done
                 /\ call'[t].warned
                 /\ ~call'[t].raised
                 /\ pc'[t] = "idle"
                 /\ log_buffer' = log_buffer
                 /\ spans' = spans
                 /\ active_traces' = active_traces ]_vars

\* A span closed with status error was ended again with status ok: the call
\* warned and the span is as it was.
C10_Witness ==
    /\ Finished(Caller, {"end_span"})
    /\ ~call[Caller].known
    /\ call[Caller].warned
    /\ call[Caller].arg = "ok"
    /\ spans[call[Caller].span].status = "error"
    /\ spans[call[Caller].span].end_time # 0
    /\ <<spans[call[Caller].span]>> = call[Caller].before

\* C7: a log call appends an entry iff its level is not below the configured
\* minimum and (the level is CRITICAL or the draw does not exceed sample_rate).
C7_BufferedIffPasses ==
    lastLog.level # "none" =>
        ( lastLog.appended <=>
            /\ level_order(lastLog.level) >= level_order(config.min_log_level)
            /\ (lastLog.level = "critical" \/ lastLog.draw <= config.sample_rate) )

\* A CRITICAL event was kept although its draw exceeded the sample rate.
C7_Witness ==
    /\ lastLog.level = "critical"
    /\ lastLog.draw > config.sample_rate
    /\ lastLog.appended
    /\ Len(log_buffer) > 0
    /\ log_buffer[Len(log_buffer)].level = "critical"

\* C11: for every span, end_time is set iff status is not unset, and
\* duration_ms is set iff end_time is set.
C11_SpanFieldsConsistent ==
    \A i \in 1..Len(spans) :
        /\ (spans[i].end_time # 0) <=> (spans[i].status # "unset")
        /\ (spans[i].duration_ms # -1) <=> (spans[i].end_time # 0)

(***************************************************************************)
(* Wrappers: with_monitoring, trace_method, track_performance and          *)
(* create_trace_context around work that returns, raises an Exception or   *)
(* raises a BaseException, nested in one thread.  Every level is logged.   *)
(***************************************************************************)
WrapperKinds == {"context", "method", "monitoring", "performance"}

InitWrap ==
    /\ config \in [batch_size : {DefaultBatchSize}, min_log_level : {"debug"},
                    sample_rate : {RateScale}]
    /\ ctx \in {[t \in Threads |-> c] : c \in {"loop_idle", "loop_running"}}
    /\ log_buffer = <<>>
    /\ metric_buffer = <<>>
    /\ flush_lock = NoThread
    /\ pc = [t \in Threads |-> "idle"]
    /\ todo = [t \in Threads |-> <<>>]
    /\ loc = [t \in Threads |-> NoLoc]
    /\ sent = <<>>
    /\ nCalls = 0
    /\ call = [t \in Threads |-> NoCall]
    /\ lastLog = [level |-> "none", draw |-> 0, appended |-> FALSE]
    /\ metrics = <<>>
    /\ InitSpans
    /\ InitClient

NextWrap ==
    \/ /\ nCalls < MaxWrapCalls /\ Len(spans) < MaxSpans
       /\ \E kind \in WrapperKinds : CallEnterScope(Caller, kind, NoData, 0)
    \/ /\ nCalls < MaxWrapCalls
       /\ \E how \in {"ok", "exception", "base_exception"} :
              CallExitScope(Caller, how, 0)
    \/ /\ nCalls < MaxWrapCalls
       /\ \E how \in {"ok", "exception", "base_exception"} :
              CallExitWrapper(Caller, how, 0)
    \/ LogStep(Caller)
    \/ RegisterStep(Caller)
    \/ RegisterWriteStep(Caller)
    \/ MetricStep(Caller)
    \/ EndSpanStep(Caller)
    \/ DelStep(Caller)
    \/ ScopeEnterStep(Caller)
    \/ WrapperEnterStep(Caller)
    \/ RestoreStep(Caller)
    \/ LeaveStep(Caller)

SpecWrap == InitWrap /\ [][NextWrap]_vars

\* The "End span" log entries emitted for span s.
EndEntries(s) ==
    {i \in 1..Len(log_buffer) :
        log_buffer[i].msg = "end_span" /\ log_buffer[i].span = s}

\* C12: when a call through a wrapper is over, the span started for it has
\* been ended exactly once, with status ok if the work returned and error if
\* it did not, and what the work raised is what leaves the wrapper.
C12_WrapperEndsSpanOnce ==
    \A t \in Threads :
        Finished(t, {"exit_scope"}) =>
            LET s == call[t].span
            IN /\ spans[s].started
               /\ s \notin active_traces
               /\ Cardinality(EndEntries(s)) = 1
               /\ spans[s].status = IF call[t].exc = "" THEN "ok" ELSE "error"
               /\ call[t].out = call[t].exc

\* C13: a flush() that received from the collector a response with a status
\* code outside the 2xx range returns false.
C13_Non2xxFails ==
    \A t \in Threads :
        ( /\ Finished(t, {"flush"})
          /\ \E i \in 1..Len(call[t].sends) :
                call[t].sends[i].outcome \in {"3xx", "4xx5xx"} )
        => call[t].ret = "false"

\* A post of the running or last call of t met a transport error.
TransportError(t) ==
    \E i \in 1..Len(call[t].sends) :
        call[t].sends[i].outcome \in {"exception", "4xx5xx"}

\* C14: a log, record_metric, critical or flush call whose flush met a
\* transport error (an exception or an error status of a post) is not left
\* by an exception and is not stopped: it goes on and returns.
C14_TransportErrorNotRaised ==
    \A t \in Threads :
        ( /\ call[t].op \in {"log", "record_metric", "critical", "flush"}
          /\ TransportError(t) )
        => /\ ~call[t].raised
           /\ ~(pc[t] \in {"swap_logs", "swap_metrics"} /\ flush_lock = t)
           /\ pc[t] = "idle" => call[t].done

\* A flush whose post to /logs raised returned false to its caller.
C14_Witness ==
    /\ Finished(Caller, {"flush"})
    /\ \E i \in 1..Len(call[Caller].sends) :
          call[Caller].sends[i].outcome = "exception"
    /\ call[Caller].ret = "false"
    /\ ~call[Caller].raised
    /\ pc[Caller] = "idle"

\* The entries handed to the transport for an endpoint, in order.
RECURSIVE Transmitted(_, _)
Transmitted(endpoint, k) ==
    IF k = 0 THEN <<>>
    ELSE Transmitted(endpoint, k - 1)
         \o (IF sent[k].endpoint = endpoint THEN sent[k].batch ELSE <<>>)

\* No entry occurs twice in the sequence.
NoRepeat(seq) ==
    \A i, j \in 1..Len(seq) : seq[i] = seq[j] => i = j

\* C15: a flush() that reported failure has left both buffers empty, and no
\* entry is handed to the transport twice or is still buffered after it was
\* handed over.
C15_FailedFlushClears ==
    /\ \A t \in Threads :
          (Finished(t, {"flush"}) /\ call[t].ret = "false") =>
              (call[t].retLog = 0 /\ call[t].retMet = 0)
    /\ NoRepeat(Transmitted("/logs", Len(sent)) \o log_buffer)
    /\ NoRepeat(Transmitted("/metrics", Len(sent)) \o metric_buffer)

\* C16: a run of _do_flush begun with both buffers non-empty makes two
\* requests, the whole log batch to /logs and then the whole metric batch to
\* /metrics, whatever the outcome of either; a failed request to one
\* endpoint leaves the other batch sent and both buffers empty.
C16_IndependentSends ==
    \A t \in Threads :
        ( /\ Finished(t, {"flush"})
          /\ call[t].doflush = 1
          /\ call[t].entryLog > 0
          /\ call[t].entryMet > 0 )
        => /\ Len(call[t].sends) = 2
           /\ call[t].sends[1].endpoint = "/logs"
           /\ call[t].sends[1].n = call[t].entryLog
           /\ call[t].sends[2].endpoint = "/metrics"
           /\ call[t].sends[2].n = call[t].entryMet
           /\ call[t].retLog = 0
           /\ call[t].retMet = 0

\* The request to /logs raised and the metric batch was accepted after it.
C16_Witness ==
    /\ Finished(Caller, {"flush"})
    /\ Len(call[Caller].sends) = 2
    /\ call[Caller].sends[1].endpoint = "/logs"
    /\ call[Caller].sends[1].outcome = "exception"
    /\ call[Caller].sends[2].endpoint = "/metrics"
    /\ call[Caller].sends[2].outcome = "2xx"
    /\ call[Caller].sends[2].n > 0
    /\ call[Caller].ret = "false"

(***************************************************************************)
(* Shutdown: events are recorded, then the client is shut down, once or    *)
(* several times, in each event-loop context.                              *)
(***************************************************************************)
InitShutdown ==
    /\ config \in [batch_size : {DefaultBatchSize}, min_log_level : {"info"},
                    sample_rate : {RateScale}]
    /\ \E c \in Contexts : ctx = [t \in Threads |-> c]
    /\ log_buffer = <<>>
    /\ metric_buffer = <<>>
    /\ flush_lock = NoThread
    /\ pc = [t \in Threads |-> "idle"]
    /\ todo = [t \in Threads |-> <<>>]
    /\ loc = [t \in Threads |-> NoLoc]
    /\ sent = <<>>
    /\ nCalls = 0
    /\ call = [t \in Threads |-> NoCall]
    /\ lastLog = [level |-> "none", draw |-> 0, appended |-> FALSE]
    /\ metrics = <<>>
    /\ InitSpans
    /\ InitClient

\* Nothing is recorded any more once shutdown has been called.
NextShutdown ==
    \/ /\ nCalls < MaxShutdownCalls /\ call[Caller].op # "shutdown"
       /\ CallLog(Caller, "info", 0, NoData)
    \/ /\ nCalls < MaxShutdownCalls /\ call[Caller].op # "shutdown"
       /\ CallRecordMetric(Caller, "m1")
    \/ /\ nCalls < MaxShutdownCalls /\ call[Caller].op # "shutdown"
       /\ CallFlush(Caller)
    \/ nCalls < MaxShutdownCalls /\ CallShutdown(Caller)
    \/ Steps(Caller)
    \/ CloseStep(Caller)
    \/ RunCloseTask

SpecShutdown == InitShutdown /\ [][NextShutdown]_vars

\* C17: when the transport connection has been closed by shutdown(), no
\* entry recorded before the shutdown is still waiting in a buffer.
C17_ShutdownFlushesBeforeClose ==
    Closed => (log_buffer = <<>> /\ metric_buffer = <<>>)

K_result == <<"r", "e", "s", "u", "l", "t">>

StartData == {NoData, << <<K_user, Str("alice")>> >>}

EndData ==
    { NoData,
      << <<K_result, Str("success")>> >>,
      << <<K_status, Str("done")>> >> }

InitSpanData ==
    /\ config \in [batch_size : {DefaultBatchSize},
                    min_log_level : {"debug", "info"},
                    sample_rate : {RateScale}]
    /\ ctx = [t \in Threads |-> "loop_idle"]
    /\ log_buffer = <<>>
    /\ metric_buffer = <<>>
    /\ flush_lock = NoThread
    /\ pc = [t \in Threads |-> "idle"]
    /\ todo = [t \in Threads |-> <<>>]
    /\ loc = [t \in Threads |-> NoLoc]
    /\ sent = <<>>
    /\ nCalls = 0
    /\ call = [t \in Threads |-> NoCall]
    /\ lastLog = [level |-> "none", draw |-> 0, appended |-> FALSE]
    /\ metrics = <<>>
    /\ InitSpans
    /\ InitClient

NextSpanData ==
    \/ /\ nCalls < MaxDataCalls /\ Len(spans) < MaxDataSpans
       /\ \E data \in StartData : CallStartSpan(Caller, data, 0)
    \/ /\ nCalls < MaxDataCalls
       /\ \E s \in 1..Len(spans), status \in SpanStatuses, data \in EndData :
              CallEndSpan(Caller, s, status,
                          IF status = "error" THEN "boom" ELSE "", data, 0)
    \/ LogStep(Caller)
    \/ DelStep(Caller)

SpecSpanData == InitSpanData /\ [][NextSpanData]_vars

\* dict[key], or a value no entry has when the key is absent
Get(data, key) ==
    IF \E i \in 1..Len(data) : data[i][1] = key
    THEN (CHOOSE p \in {data[i] : i \in 1..Len(data)} : p[1] = key)[2]
    ELSE Str("<absent>")

\* C19: the log entry of an end_span on an active span has level ERROR when
\* the status is error and DEBUG when it is ok, and its data holds the
\* span's id, trace id, duration and status and, when one was given, the
\* error_message; with every level logged there is one such entry.
C19_EndSpanLogEntry ==
    /\ \A i \in 1..Len(log_buffer) :
          log_buffer[i].msg = "end_span" =>
              LET e == log_buffer[i]
                  sp == spans[e.span]
              IN /\ sp.status = "error" => e.level = "error"
                 /\ sp.status = "ok" => e.level = "debug"
                 /\ Get(e.data, K_span_id) = Num(sp.span_id)
                 /\ Get(e.data, K_trace_id) = Num(sp.trace_id)
                 /\ Get(e.data, K_duration_ms) = Num(sp.duration_ms)
                 /\ Get(e.data, K_status) = Str(sp.status)
                 /\ sp.error_message # "" =>
                       Get(e.data, K_error_message) = Str(sp.error_message)
    /\ \A t \in Threads :
          ( /\ Finished(t, {"end_span"})
            /\ call[t].known
            /\ config.min_log_level = "debug" )
          => Cardinality(EndEntries(call[t].span)) = 1

\* C20: the span returned by start_span(..., data=D) has attributes D, and
\* after end_span(span, data=E) its attributes are D merged with E.
C20_SpanAttributes ==
    /\ \A i \in 1..Len(spans) :
          (spans[i].started /\ Returned(i) /\ spans[i].end_time = 0) =>
              spans[i].attributes = spans[i].given
    /\ \A t \in Threads :
          (Finished(t, {"end_span"}) /\ call[t].known) =>
              spans[call[t].span].attributes =
                  UpdateData(spans[call[t].span].given, call[t].data)

(***************************************************************************)
(* C21: what _sanitize_data returns.                                       *)
(***************************************************************************)
\* out has the keys of in, in the same order; a key whose lowercased name
\* contains a sensitive substring maps to the marker, a map under any other
\* key is related to its original in the same way, and any other value is
\* the original value.
RECURSIVE Conforms(_, _)
Conforms(in, out) ==
    /\ Len(out) = Len(in)
    /\ \A i \in 1..Len(in) :
          /\ out[i][1] = in[i][1]
          /\ IF IsSensitive(in[i][1]) THEN out[i][2] = REDACTED
             ELSE IF in[i][2].kind = "map"
                  THEN /\ out[i][2].kind = "map"
                       /\ Conforms(in[i][2].m, out[i][2].m)
                  ELSE out[i][2] = in[i][2]

\* The request field of the entry record_api_call buffered.
RequestOf(t) ==
    Get(log_buffer[Len(log_buffer)].data, K_request).m

\* C21: sanitize(map) returns a map with the same keys in which every key
\* whose lowercased name contains a sensitive substring maps to the
\* redaction marker, nested maps are sanitized at every depth, and every
\* other value is unchanged: the request that record_api_call stores is
\* related in this way to the request_data it was given.
C21_SanitizeResult ==
    \A t \in Threads :
        (Finished(t, {"record_api_call"}) /\ call[t].data # NoData) =>
            /\ log_buffer # <<>>
            /\ log_buffer[Len(log_buffer)].id = call[t].id
            /\ Conforms(call[t].data, RequestOf(t))

\* A request with a password two maps deep was sanitized: the password is
\* redacted and its non-sensitive neighbour is kept.
C21_Witness ==
    \E t \in Threads :
        /\ Finished(t, {"record_api_call"})
        /\ call[t].data # NoData
        /\ call[t].data[1][2].kind = "map"
        /\ Len(call[t].data[1][2].m) = 2
        /\ log_buffer # <<>>
        /\ LET inner == RequestOf(t)[1][2].m[2][2].m
           IN /\ inner[1] = <<K_Password, REDACTED>>
              /\ inner[3] = <<K_user, Str("bob")>>

(***************************************************************************)
(* The metric registry: record_metric and register_metric called by two    *)
(* threads on the same names.                                              *)
(***************************************************************************)
InitMetrics ==
    /\ config \in [batch_size : {DefaultBatchSize},
                    min_log_level : {"info"},
                    sample_rate : {RateScale}]
    /\ ctx = [t \in Threads |-> "loop_idle"]
    /\ log_buffer = <<>>
    /\ metric_buffer = <<>>
    /\ flush_lock = NoThread
    /\ pc = [t \in Threads |-> "idle"]
    /\ todo = [t \in Threads |-> <<>>]
    /\ loc = [t \in Threads |-> NoLoc]
    /\ sent = <<>>
    /\ nCalls = 0
    /\ call = [t \in Threads |-> NoCall]
    /\ lastLog = [level |-> "none", draw |-> 0, appended |-> FALSE]
    /\ metrics = <<>>
    /\ InitSpans
    /\ InitClient

NextMetrics ==
    \E t \in Threads :
        \/ /\ nCalls < MaxMetricCalls
           /\ \E name \in {"m1", "m2"} : CallRecordMetric(t, name)
        \/ /\ nCalls < MaxMetricCalls
           /\ \E name \in {"m1", "m2"}, metric_type \in {"counter", "gauge"} :
                  CallRegisterMetric(t, name, metric_type)
        \/ RegisterStep(t)
        \/ RegisterWriteStep(t)
        \/ MetricStep(t)

SpecMetrics == InitMetrics /\ [][NextMetrics]_vars

\* C22: every sample in the metric stream has a descriptor, and a descriptor
\* registered for a name is never replaced by the auto-generated one of
\* record_metric.
C22_RegistryConsistent ==
    /\ [](\A i \in 1..Len(metric_buffer) :
              metric_buffer[i].name \in DOMAIN metrics)
    /\ [][\A n \in DOMAIN metrics :
              metrics'[n] = metrics[n] \/ ~metrics'[n].auto]_vars

(***************************************************************************)
(* Configuration: a validated LogFireConfig, then configure() calls that   *)
(* retarget the client and set options, between log and metric calls.      *)
(***************************************************************************)
\* LogFireConfig.validate_config, logfire_config.py lines 52-70; numbers of
\* seconds and the sample rate are counted in units of 1 / RateScale.
validate_config(c) ==
    /\ c.batch_size >= 1
    /\ c.flush_interval_seconds > 0
    /\ c.timeout_seconds > 0
    /\ c.retry_attempts >= 0
    /\ 0 <= c.sample_rate /\ c.sample_rate <= RateScale

\* The keyword arguments LogFireConfig(...) may be given.
ConfigArguments ==
    [batch_size : {0, 2, DefaultBatchSize},
     min_log_level : {"info"},
     sample_rate : {RateScale, RateScale + 1},
     flush_interval_seconds : {0, 5 * RateScale},
     timeout_seconds : {10 * RateScale},
     retry_attempts : {-1, 3}]

\* LogFireConfig(...): the model validator raises on a violating value, so
\* only these configurations come into existence.
LogFireConfig == {c \in ConfigArguments : validate_config(c)}

\* The **options of a configure call: key/value pairs in call order.
OptionSets ==
    { <<>>,
      << <<"batch_size", 2>> >>,
      << <<"batch_size", 0>> >>,
      << <<"sample_rate", RateScale + 1>>, <<"no_such_field", 1>> >>,
      << <<"flush_interval_seconds", 0>>, <<"retry_attempts", -1>> >>,
      << <<"timeout_seconds", 0>> >> }

\* setattr(self.config, key, value) with the value added to the old one
SetAttr_accumulate(cfg, key, value) == [cfg EXCEPT ![key] = @ + value]

\* setattr(self.config, key, value), line 210: plain assignment, the model
\* is not declared with validate_assignment
SetAttr(cfg, key, value) == [cfg EXCEPT ![key] = value]

\* configure, lines 206-210: for key, value in options.items():
\*     if hasattr(self.config, key): setattr(self.config, key, value)
RECURSIVE ApplyOptions(_, _)
ApplyOptions(cfg, options) ==
    IF options = <<>> THEN cfg
    ELSE LET key == Head(options)[1]
             value == Head(options)[2]
         IN ApplyOptions(IF key \in DOMAIN cfg THEN SetAttr(cfg, key, value)
                                               ELSE cfg,
                         Tail(options))

\* configure(service_name, environment, **options), lines 174-215
CallConfigure(t, service_name, environment, options) ==
    /\ BeginWith(t, [NewCall("configure", 0) EXCEPT
                        !.data = <<service_name, environment, options>>,
                        !.arg = IF call[t].op = "configure"
                                    /\ call[t].data = <<service_name,
                                                        environment, options>>
                                THEN "repeat" ELSE "first",
                        !.ret = "true"],
                 <<>>)
    /\ client' = [client EXCEPT !.service_name = service_name,
                                !.environment = environment]
    /\ config' = ApplyOptions(config, options)
    /\ UNCHANGED <<spanVars, monitor, ctx, log_buffer, metric_buffer,
                   flush_lock, loc, sent, lastLog, metrics>>

InitConfig ==
    /\ config \in LogFireConfig
    /\ ctx = [t \in Threads |-> "loop_idle"]
    /\ log_buffer = <<>>
    /\ metric_buffer = <<>>
    /\ flush_lock = NoThread
    /\ pc = [t \in Threads |-> "idle"]
    /\ todo = [t \in Threads |-> <<>>]
    /\ loc = [t \in Threads |-> NoLoc]
    /\ sent = <<>>
    /\ nCalls = 0
    /\ call = [t \in Threads |-> NoCall]
    /\ lastLog = [level |-> "none", draw |-> 0, appended |-> FALSE]
    /\ metrics = <<>>
    /\ InitSpans
    /\ InitClient

NextConfig ==
    \/ nCalls < MaxConfigCalls /\ CallLog(Caller, "info", 0, NoData)
    \/ nCalls < MaxConfigCalls /\ CallRecordMetric(Caller, "m1")
    \/ nCalls < MaxConfigCalls /\ CallFlush(Caller)
    \/ /\ nCalls < MaxConfigCalls
       /\ \E service_name \in {"svc", "svc2"},
             environment \in {"development", "production"},
             options \in OptionSets :
              CallConfigure(Caller, service_name, environment, options)
    \/ Steps(Caller)

SpecConfig == InitConfig /\ [][NextConfig]_vars

C28_ConfigAlwaysValid ==
    /\ config.batch_size >= 1
    /\ config.flush_interval_seconds > 0
    /\ config.timeout_seconds > 0
    /\ config.retry_attempts >= 0
    /\ config.sample_rate >= 0
    /\ config.sample_rate <= RateScale

(***************************************************************************)
(* Concurrency: two threads logging, recording metrics and flushing the    *)
(* same client, with and without size-triggered flushes.                   *)
(***************************************************************************)
InitConcurrent ==
    /\ config \in [batch_size : {2, DefaultBatchSize},
                    min_log_level : {"info"},
                    sample_rate : {RateScale}]
    /\ ctx = [t \in Threads |-> "loop_idle"]
    /\ log_buffer = <<>>
    /\ metric_buffer = <<>>
    /\ flush_lock = NoThread
    /\ pc = [t \in Threads |-> "idle"]
    /\ todo = [t \in Threads |-> <<>>]
    /\ loc = [t \in Threads |-> NoLoc]
    /\ sent = <<>>
    /\ nCalls = 0
    /\ call = [t \in Threads |-> NoCall]
    /\ lastLog = [level |-> "none", draw |-> 0, appended |-> FALSE]
    /\ metrics = <<>>
    /\ InitSpans
    /\ InitClient

NextConcurrent ==
    \E t \in Threads :
        \/ nCalls < MaxConcCalls /\ CallLog(t, "info", 0, NoData)
        \/ nCalls < MaxConcCalls /\ CallRecordMetric(t, "m1")
        \/ nCalls < MaxConcCalls /\ CallFlush(t)
        \/ Steps(t)

SpecConcurrent == InitConcurrent /\ [][NextConcurrent]_vars

\* The positions of a thread inside flush() and _do_flush().
InFlush ==
    {"flush", "df_logs", "swap_logs", "post_logs", "df_metrics",
     "swap_metrics", "post_metrics", "flush_ret"}

\* C24: flush_lock is held only for an append or a buffer swap: no thread
\* holds it while it is inside flush(), so no producer waits for the lock
\* for as long as a flush lasts.
C24_LockOnlyForAppendOrSwap ==
    \A t \in Threads : flush_lock = t => pc[t] \notin InFlush

\* The ids of the entries in a sequence of entries.
Ids(entries) == {entries[i].id : i \in 1..Len(entries)}

\* The batches captured for an endpoint: those posted, and those cloned by
\* a flush that has not posted yet.
Batches(endpoint) ==
    {sent[k].batch : k \in {j \in 1..Len(sent) : sent[j].endpoint = endpoint}}
        \cup {loc[t].to_send :
                 t \in {u \in Threads :
                           pc[u] = IF endpoint = "/logs" THEN "post_logs"
                                                         ELSE "post_metrics"}}

\* The entries of a buffer and of the batches captured from it: where an
\* appended entry can be.
Held(buffer, endpoint) ==
    Ids(buffer) \cup UNION {Ids(b) : b \in Batches(endpoint)}

\* No entry is in two batches, in one batch twice, or in a batch and still
\* in the buffer.
AtMostOnce(buffer, endpoint) ==
    /\ \A b \in Batches(endpoint) :
          /\ Ids(b) \cap Ids(buffer) = {}
          /\ Cardinality(Ids(b)) = Len(b)
          /\ \A b2 \in Batches(endpoint) : b2 # b => Ids(b) \cap Ids(b2) = {}
    /\ Cardinality(Ids(buffer)) = Len(buffer)
    /\ Cardinality(Batches(endpoint) \ {<<>>}) =
           Cardinality({k \in 1..Len(sent) :
                           sent[k].endpoint = endpoint /\ sent[k].batch # <<>>})
           + Cardinality({t \in Threads :
                             /\ pc[t] = IF endpoint = "/logs"
                                        THEN "post_logs" ELSE "post_metrics"
                             /\ loc[t].to_send # <<>>})

\* C25: under any interleaving of log and record_metric calls with flushes,
\* every appended entry is captured by at most one batch, and no entry
\* leaves a buffer without being captured in a batch.
C25_NoLossNoDuplicate ==
    /\ [](AtMostOnce(log_buffer, "/logs")
            /\ AtMostOnce(metric_buffer, "/metrics"))
    /\ [][ /\ Held(log_buffer, "/logs") \subseteq Held(log_buffer, "/logs")'
           /\ Held(metric_buffer, "/metrics")
                 \subseteq Held(metric_buffer, "/metrics")' ]_vars

\* While the flush of one thread is between its swap and its post, with a
\* batch captured, another thread has appended an entry to the buffer.
C25_Witness ==
    \E t \in Threads, u \in Threads :
        /\ t # u
        /\ pc[t] = "post_logs"
        /\ loc[t].to_send # <<>>
        /\ log_buffer # <<>>
        /\ Finished(u, {"log"})
        /\ \A i \in 1..Len(log_buffer) : log_buffer[i].id = call[u].id

(***************************************************************************)
(* The flush timer: the daemon thread started by _setup_flush_timer, next  *)
(* to an application thread that logs, records metrics and may flush.      *)
(***************************************************************************)
\* The thread started at lines 171-172.  It is not the main thread and sets
\* no event loop, so asyncio.get_event_loop() raises in it.
TimerThread == "t2"

\* One round of _flush_timer, lines 157-170: time.sleep(flush_interval)
\* returns, and flush() is called if the interval has passed since
\* last_flush and a buffer is non-empty.  Only the distance between the
\* clock and last_flush matters here, so at MaxTime the clock stays and
\* last_flush moves back instead.
TimerWake(t) ==
    /\ t = TimerThread
    /\ pc[t] = "idle"
    /\ LET interval == config.flush_interval_seconds
           current_time == IF now + interval <= MaxTime THEN now + interval
                                                        ELSE now
           last == IF now + interval <= MaxTime THEN client.last_flush
                   ELSE IF client.last_flush > interval
                        THEN client.last_flush - interval ELSE 0
       IN /\ now' = current_time
          /\ client' = [client EXCEPT !.last_flush = last]
          /\ IF current_time - last >= interval
                  /\ (log_buffer # <<>> \/ metric_buffer # <<>>)
             THEN /\ call' = [call EXCEPT ![t] = NewCall("timer_flush", 0)]
                  /\ todo' = [todo EXCEPT ![t] = <<FlushOp>>]
                  /\ pc' = [pc EXCEPT ![t] = "ready"]
             ELSE UNCHANGED <<call, todo, pc>>
    /\ UNCHANGED <<spans, active_traces, current_trace, scopes, config,
                   monitor, ctx, log_buffer, metric_buffer, flush_lock, loc,
                   sent, nCalls, lastLog, metrics>>

InitTimer ==
    /\ config \in [batch_size : {DefaultBatchSize},
                    min_log_level : {"info"},
                    sample_rate : {RateScale},
                    flush_interval_seconds : {1, 2}]
    /\ ctx = [t \in Threads |-> IF t = TimerThread THEN "no_loop"
                                                    ELSE "loop_idle"]
    /\ log_buffer = <<>>
    /\ metric_buffer = <<>>
    /\ flush_lock = NoThread
    /\ pc = [t \in Threads |-> "idle"]
    /\ todo = [t \in Threads |-> <<>>]
    /\ loc = [t \in Threads |-> NoLoc]
    /\ sent = <<>>
    /\ nCalls = 0
    /\ call = [t \in Threads |-> NoCall]
    /\ lastLog = [level |-> "none", draw |-> 0, appended |-> FALSE]
    /\ metrics = <<>>
    /\ InitSpans
    /\ InitClient

NextTimer ==
    \/ nCalls < MaxTimerCalls /\ CallLog(Caller, "info", 0, NoData)
    \/ nCalls < MaxTimerCalls /\ CallRecordMetric(Caller, "m1")
    \/ nCalls < MaxTimerCalls /\ CallFlush(Caller)
    \/ TimerWake(TimerThread)
    \/ \E t \in Threads : Steps(t)

\* The timer thread runs for as long as the process does, and a call in
\* progress goes on; the application is not bound to call again.
SpecTimer ==
    /\ InitTimer
    /\ [][NextTimer]_vars
    /\ WF_vars(TimerWake(TimerThread))
    /\ \A t \in Threads : WF_vars(Steps(t))

\* C27: a buffer that is non-empty is eventually emptied, by the timer if
\* by no other flush.
C27_TimerEventuallyFlushes ==
    /\ (log_buffer # <<>>) ~> (log_buffer = <<>>)
    /\ (metric_buffer # <<>>) ~> (metric_buffer = <<>>)

(***************************************************************************)
(* Traced methods called concurrently: by two threads, or by two tasks of  *)
(* one event loop.  A task runs until the `await` of the wrapped method    *)
(* (trace_method line 103), so another task runs only between the entry    *)
(* and the exit of a wrapper, while threads interleave at every step.      *)
(***************************************************************************)
MayRun(t) ==
    \A u \in Threads \ {t} : ThreadOf(u) = ThreadOf(t) => pc[u] = "idle"

InitTasks ==
    /\ config \in [batch_size : {DefaultBatchSize},
                    min_log_level : {"debug"},
                    sample_rate : {RateScale}]
    /\ \E c \in {"loop_running", "loop_idle"} : ctx = [t \in Threads |-> c]
    /\ log_buffer = <<>>
    /\ metric_buffer = <<>>
    /\ flush_lock = NoThread
    /\ pc = [t \in Threads |-> "idle"]
    /\ todo = [t \in Threads |-> <<>>]
    /\ loc = [t \in Threads |-> NoLoc]
    /\ sent = <<>>
    /\ nCalls = 0
    /\ call = [t \in Threads |-> NoCall]
    /\ lastLog = [level |-> "none", draw |-> 0, appended |-> FALSE]
    /\ metrics = <<>>
    /\ InitSpans
    /\ InitClient

NextTasks ==
    \E t \in Threads :
        \/ /\ MayRun(t) /\ nCalls < MaxTaskCalls
           /\ CallEnterScope(t, "method", NoData, 0)
        \/ /\ MayRun(t) /\ nCalls < MaxTaskCalls
           /\ \E how \in {"ok", "exception"} : CallExitScope(t, how, 0)
        \/ MayRun(t) /\ LogStep(t)
        \/ MayRun(t) /\ DelStep(t)
        \/ MayRun(t) /\ ScopeEnterStep(t)
        \/ MayRun(t) /\ RestoreStep(t)

SpecTasks == InitTasks /\ [][NextTasks]_vars

\* No traced call is in progress in any context.
Quiescent ==
    \A t \in Threads : pc[t] = "idle" /\ scopes[t] = <<>>

\* C26: a span made current by one call context is never the parent of a
\* span of another context, and once every traced call has finished the
\* current span of every context is what it was before, none.
C26_CurrentSpanPerContext ==
    /\ \A i \in 1..Len(spans) :
          spans[i].parent_span_id # NoSpan =>
              spans[spans[i].parent_span_id].owner = spans[i].owner
    /\ Quiescent => \A t \in Threads : current_trace[ThreadOf(t)] = NoSpan

\* C29: the "Start span" and the "End span" entry logged for one span carry
\* the same trace_id, and it is the trace_id of the span, also for a span
\* opened inside another traced scope.
C29_SpanEntriesShareTrace ==
    \A e1 \in LogEntries, e2 \in LogEntries :
        (e1.msg = "start_span" /\ e2.msg = "end_span" /\ e1.span = e2.span) =>
            /\ e1.trace = e2.trace
            /\ e2.trace = spans[e2.span].trace_id
            /\ Get(e1.data, K_trace_id) = Get(e2.data, K_trace_id)

(***************************************************************************)
(* The global monitor: get_monitor() called for the first time by two      *)
(* threads of a process with no monitor configured and no LOGFIRE token    *)
(* in the environment (setup_from_env returns None).                       *)
(***************************************************************************)
GetMonitorOp(op) ==
    [op |-> op, level |-> "info", draw |-> 0, data |-> NoData,
     trace |-> NoTrace, msg |-> "plain", span |-> NoSpan, name |-> "-"]

\* get_monitor(), logger_utils.py lines 70-126
CallGetMonitor(t) ==
    /\ Begin(t, "get_monitor", <<GetMonitorOp("gm_test")>>)
    /\ UNCHANGED <<spanVars, config, client, monitor, ctx, log_buffer,
                   metric_buffer, flush_lock, loc, sent, lastLog, metrics>>

\* Line 83: if _monitor is None.  The lock is not held for the test.
MonitorTestStep(t) ==
    /\ pc[t] = "ready"
    /\ Head(todo[t]).op = "gm_test"
    /\ todo' = [todo EXCEPT ![t] =
                   IF monitor.instance = 0
                   THEN <<GetMonitorOp("gm_create"), GetMonitorOp("gm_return")>>
                   ELSE <<GetMonitorOp("gm_return")>>]
    /\ UNCHANGED <<spanVars, config, client, monitor, ctx, log_buffer,
                   metric_buffer, flush_lock, pc, loc, sent, nCalls, call,
                   lastLog, metrics>>

\* Lines 93-104: with _monitor_lock: _monitor = LogFireClient(config).  The
\* block runs as a whole, and it does not test _monitor again; each client
\* constructed starts its own flush thread (__init__, line 87).
MonitorAfterCreate(m) ==
    [instance |-> m.created + 1, created |-> m.created + 1]

MonitorCreateStep(t) ==
    /\ pc[t] = "ready"
    /\ Head(todo[t]).op = "gm_create"
    /\ monitor' = MonitorAfterCreate(monitor)
    /\ todo' = [todo EXCEPT ![t] = Tail(@)]
    /\ UNCHANGED <<spanVars, config, client, ctx, log_buffer, metric_buffer,
                   flush_lock, pc, loc, sent, nCalls, call, lastLog, metrics>>

\* Line 126: return _monitor
MonitorReturnStep(t) ==
    /\ pc[t] = "ready"
    /\ Head(todo[t]).op = "gm_return"
    /\ LET rest == Tail(todo[t])
       IN /\ todo' = [todo EXCEPT ![t] = rest]
          /\ pc' = [pc EXCEPT ![t] = After(rest)]
          /\ call' = [call EXCEPT ![t] =
                         Settle([@ EXCEPT !.span = monitor.instance], rest,
                                log_buffer, metric_buffer)]
    /\ UNCHANGED <<spanVars, config, client, monitor, ctx, log_buffer,
                   metric_buffer, flush_lock, loc, sent, nCalls, lastLog,
                   metrics>>

InitMonitor ==
    /\ config \in [batch_size : {DefaultBatchSize},
                    min_log_level : {"info"},
                    sample_rate : {RateScale}]
    /\ \E c \in Contexts : ctx = [t \in Threads |-> c]
    /\ log_buffer = <<>>
    /\ metric_buffer = <<>>
    /\ flush_lock = NoThread
    /\ pc = [t \in Threads |-> "idle"]
    /\ todo = [t \in Threads |-> <<>>]
    /\ loc = [t \in Threads |-> NoLoc]
    /\ sent = <<>>
    /\ nCalls = 0
    /\ call = [t \in Threads |-> NoCall]
    /\ lastLog = [level |-> "none", draw |-> 0, appended |-> FALSE]
    /\ metrics = <<>>
    /\ InitSpans
    /\ InitClient

NextMonitor ==
    \E t \in Threads :
        \/ nCalls < MaxMonitorCalls /\ CallGetMonitor(t)
        \/ MonitorTestStep(t)
        \/ MonitorCreateStep(t)
        \/ MonitorReturnStep(t)

SpecMonitor == InitMonitor /\ [][NextMonitor]_vars

\* C30: at most one client is ever constructed by get_monitor(), and every
\* call returns that one client.
C30_SingleMonitor ==
    /\ monitor.created <= 1
    /\ \A t \in Threads :
          Finished(t, {"get_monitor"}) => call[t].span = 1

====
